---- MODULE Spec2Model ----
(***************************************************************************)
(* Lifecycle state machine and immutability gate of the two-pass           *)
(* orchestrator: scripts/state_utils.py, scripts/orchestrator.py,          *)
(* scripts/merge_pass2.py, scripts/check_deliverables.py.  The state is    *)
(* the project's file tree (state/, outputs/, input/, prompts/); every     *)
(* command is one action.                                                  *)
(*                                                                         *)
(* Modelling conventions                                                   *)
(*  - in the lifecycle specification (Spec) a parsed JSON document is a    *)
(*    record, a key that is not present has the value Absent, and          *)
(*    canonicalize_json gives one canonical text per document; the         *)
(*    serialisation itself (order of keys, layout, parsing, the three      *)
(*    files of a snapshot as texts) is modelled on ordered documents in    *)
(*    the snapshot store specification (SpecStore);                        *)
(*  - sha256 is modelled as injective: the digest of a text is the tagged  *)
(*    text itself, and so is its 12-hex prefix;                            *)
(*  - an identifier "<task_id>__<hashprefix>" is the pair                  *)
(*    <<task_id, hashprefix>>.                                             *)
(***************************************************************************)
EXTENDS Integers, Sequences, FiniteSets, TLC

\* ---------------------------------------------------------------- bounds
MaxSnapshots == 1
MaxEdits == 1
MaxCalls == 3

\* ------------------------------------------------------- program constants
EXIT_PASS == 0
EXIT_FAIL == 1
EXIT_BLOCKER == 2

LEVEL_PASS == "PASS"
LEVEL_FAIL == "FAIL"
LEVEL_BLOCKER == "BLOCKER"

ERROR_CODES ==
  {"OK", "LIFECYCLE_VIOLATION", "IO_ERROR", "INVALID_ARGUMENT",
   "OUTPUT_DIR_EXISTS", "TASK_ID_MISMATCH", "SNAPSHOT_INVALID",
   "SNAPSHOT_IMMUTABLE_VIOLATION", "FINGERPRINT_MISMATCH"}

MERGE_ERROR_CODES ==
  {"OK", "INVALID_ARGUMENT", "IO_ERROR", "TASK_ID_MISMATCH",
   "SNAPSHOT_IMMUTABLE_VIOLATION", "MERGE_FINGERPRINT_MISMATCH",
   "MERGE_STATE_EXISTS", "MERGE_STATE_INVALID", "LIFECYCLE_VIOLATION"}

\* ---------------------------------------------------------- value domains
TaskIds == {"t1", "t2"}
Archs == {"a1", "a2"}
Stamps == {"u1"}
EditedStamp == "edited"
Stages == {"core", "anchors"}
PromptKeys == {"pass_1_decide_md", "pass_2_execute_core_md", "pass_2_execute_anchors_md"}
PromptBodies == {"v1", "v2"}
LineEndings == {"lf", "crlf"}

Absent == <<"absent">>
EmptyString == <<>>
NoId == <<>>

\* ------------------------------------------------- state_utils.py (pure)
canonicalize_json(obj) == [canonical |-> obj]

sha256_hex(text) == <<"sha256", text>>

canonicalize_text(raw) == raw.body

compute_snapshot_hash(arch_decision_json) ==
  [canonical |-> canonicalize_json(arch_decision_json),
   digest |-> sha256_hex(canonicalize_json(arch_decision_json))]

fingerprint_immutable_architecture(arch_decision_json) ==
  sha256_hex(canonicalize_json(arch_decision_json.immutable_architecture))

HashPrefix(hash_hex) ==
  IF hash_hex = EmptyString THEN EmptyString ELSE <<"sha256[:12]", hash_hex[2]>>

\* the digest comparison left out
verify_content_not_compared(arch_decision_json, expected_sha256) ==
  [ok |-> TRUE, msg |-> "OK"]

verify_snapshot_content(arch_decision_json, expected_sha256) ==
  IF compute_snapshot_hash(arch_decision_json).digest # expected_sha256
    THEN [ok |-> FALSE, msg |-> "HASH_MISMATCH"]
    ELSE [ok |-> TRUE, msg |-> "OK"]

\* ------------------------------------------------------------------ state
VARIABLES
  prompts,      \* prompts/<file>: raw text of the three prompt files
  task_json,    \* input/task.json: its task_id
  snapshots,    \* state/snapshots/<id>.snapshot.json: id -> parsed payload
  sha_files,    \* state/snapshots/<id>.sha256: id -> first non-blank line
  approvals,    \* state/approvals/<digest>.approved: set of digests
  outputs,      \* outputs/pass_2/<run_id>/<stage>/: <<run_id, stage>> -> directory
  runtime,      \* state/runtime/last_request.txt: the last request written
  merge_state,  \* state/merges/<merge_id>.json: merge_id -> Merge Record
  merge_ptr,    \* state/merges/by_run/<run_id>.merge_id: run_id -> merge_id
  last,         \* outcome of the last command (level, code, exit code)
  edits,        \* number of hand edits made so far
  calls,        \* number of external generative calls made so far
  readme_ok,    \* README.md has the digest in state/architecture/README.sha256
  snapshots_dir, \* SpecStore: id -> the texts of <id>.snapshot.json, .canonical.json, .sha256
  ret           \* arguments and result of the last state_utils call, report or post-check

fs == <<prompts, task_json, snapshots, sha_files, approvals, outputs, runtime,
        merge_state, merge_ptr, readme_ok>>
vars == <<prompts, task_json, snapshots, sha_files, approvals, outputs, runtime,
          merge_state, merge_ptr, last, edits, calls, readme_ok>>
store_vars == <<snapshots_dir, ret>>

fingerprint_file(key) == sha256_hex(canonicalize_text(prompts[key]))

read_sha256_file(sid) == sha_files[sid]

verify_snapshot_files(sid) ==
  IF read_sha256_file(sid) = EmptyString
    THEN [ok |-> FALSE, msg |-> "EMPTY_SHA256_FILE"]
    ELSE verify_snapshot_content(snapshots[sid], read_sha256_file(sid))

approval_file_for_hash(hash_hex) == hash_hex

CurrentPromptFingerprints == [k \in PromptKeys |-> fingerprint_file(k)]

\* ------------------------------------------------------- outcome records
Outcome(op, id, id2, stage, force, level, code, exit, prefix, detail, llm) ==
  [op |-> op, id |-> id, id2 |-> id2, stage |-> stage, force |-> force,
   level |-> level, code |-> code, exit |-> exit,
   prefix |-> prefix, detail |-> detail, llm |-> llm]

NoOutcome ==
  Outcome("init", NoId, NoId, "-", FALSE, LEVEL_PASS, "OK", EXIT_PASS, "", "", FALSE)

EnvOutcome(op) ==
  Outcome(op, NoId, NoId, "-", FALSE, LEVEL_PASS, "OK", EXIT_PASS, "", "", FALSE)

\* an exception travelling up to main(): its class and its message "PREFIX: detail"
Raise(type, prefix, detail) == [type |-> type, prefix |-> prefix, detail |-> detail]

\* orchestrator.main: the except clauses
main_level(exc) ==
  IF exc.type = "LifecycleViolation" THEN LEVEL_BLOCKER ELSE LEVEL_FAIL

main_code(exc) ==
  IF exc.type = "LifecycleViolation"
    THEN IF exc.prefix \in ERROR_CODES THEN exc.prefix ELSE "LIFECYCLE_VIOLATION"
    ELSE "IO_ERROR"

main_exit(exc) ==
  IF exc.type = "LifecycleViolation" THEN EXIT_BLOCKER ELSE EXIT_FAIL

Failed(op, id, stage, force, exc, llm) ==
  Outcome(op, id, NoId, stage, force, main_level(exc), main_code(exc), main_exit(exc),
          exc.prefix, exc.detail, llm)

Passed(op, id, stage, force, llm) ==
  Outcome(op, id, NoId, stage, force, LEVEL_PASS, "OK", EXIT_PASS, "", "", llm)

\* orchestrator.enforce_readme_fingerprint_or_blocker: the drift guard of main()
enforce_readme_fingerprint_or_blocker == readme_ok

\* main() when the drift guard fails: BLOCKER FINGERPRINT_MISMATCH, nothing is run
ReadmeBlocker(op, id, stage, force) ==
  /\ UNCHANGED <<prompts, task_json, snapshots, sha_files, approvals, outputs,
                 runtime, merge_state, merge_ptr, edits, calls>>
  /\ last' = Outcome(op, id, NoId, stage, force, LEVEL_BLOCKER, "FINGERPRINT_MISMATCH",
                     EXIT_BLOCKER, "README", "README.md fingerprint mismatch", FALSE)

\* ------------------------------------------------------ orchestrator.run_llm
\* REQ_PATH.write_text(prompt_text) happens before the external command runs
NoRequest == "absent"
RequestWritten == "written"

\* arguments and result of the last state_utils call (SpecStore, SpecDigest)
EmptyObject == <<"obj", <<>>>>

Result(op, id, task_id, existed, ok, msg, a, b, digest_a, digest_b) ==
  [op |-> op, id |-> id, task_id |-> task_id, existed |-> existed, ok |-> ok,
   msg |-> msg, a |-> a, b |-> b, digest_a |-> digest_a, digest_b |-> digest_b]

NoResult ==
  Result("none", NoId, "", FALSE, TRUE, "", EmptyObject, EmptyObject,
         EmptyString, EmptyString)

\* ------------------------------------------------------------------- Init
InitTree ==
  /\ prompts \in [PromptKeys -> {[body |-> "v1", eol |-> "lf"]}]
  /\ task_json = "t1"
  /\ snapshots = <<>>
  /\ sha_files = <<>>
  /\ approvals = {}
  /\ outputs = <<>>
  /\ runtime = NoRequest
  /\ merge_state = <<>>
  /\ merge_ptr = <<>>
  /\ last = NoOutcome
  /\ edits = 0
  /\ calls = 0
  /\ readme_ok = TRUE
  /\ snapshots_dir = <<>>

Init == InitTree /\ ret = NoResult

\* --------------------------------------------------- small map utilities
Put(f, k, v) == [x \in (DOMAIN f) \cup {k} |-> IF x = k THEN v ELSE f[x]]

\* ------------------------------------------- state_utils.save_snapshot
\* meta.setdefault("created_utc", utc_now_iso())
Stamped(arch_decision_json, now) ==
  IF arch_decision_json.created_utc = ""
    THEN [arch_decision_json EXCEPT !.created_utc = now]
    ELSE arch_decision_json

\* the id made of the task id alone
SnapshotIdWithoutDigest(task_id, digest) == <<task_id, EmptyString>>

SnapshotId(task_id, digest) == <<task_id, HashPrefix(digest)>>

save_snapshot(arch_decision_json, task_id, now) ==
  LET arch == Stamped(arch_decision_json, now)
      digest == compute_snapshot_hash(arch).digest
      base == SnapshotId(task_id, digest)
  IN /\ snapshots' = Put(snapshots, base, arch)
     /\ sha_files' = Put(sha_files, base, digest)

CanSave(arch_decision_json, task_id, now) ==
  \/ SnapshotId(task_id, compute_snapshot_hash(Stamped(arch_decision_json, now)).digest)
       \in DOMAIN snapshots
  \/ Cardinality(DOMAIN snapshots) < MaxSnapshots

\* the exception a bad answer of the external command ends in
LlmError(resp) ==
  CASE resp = "cli_failed" -> Raise("RuntimeError", "LLM_CLI_FAILED", "")
    [] resp = "not_json" -> Raise("ValueError", "LLM_OUTPUT_NOT_PURE_JSON", "")
    [] resp = "immutable_architecture_in_deliverables" ->
         Raise("ValueError", "IMMUTABILITY_VIOLATION", "")
    [] OTHER -> Raise("AttributeError", "", "deliverables has no get")

LlmResponses ==
  {"ok", "ok_with_own_fingerprint", "cli_failed", "not_json",
   "immutable_architecture_in_deliverables", "deliverables_not_a_mapping"}

\* the reply parses as a JSON object whose deliverables are a clean mapping
LlmOk(resp) == resp \in {"ok", "ok_with_own_fingerprint"}

\* the value the reply itself carries under "immutable_fingerprint"
ReturnedFingerprint(resp) ==
  IF resp = "ok_with_own_fingerprint"
    THEN sha256_hex(canonicalize_json("forged")) ELSE Absent

\* --------------------------------------------------- orchestrator.cmd_decide
DecidePayload(arch) ==
  [task_id |-> task_json,
   immutable_architecture |-> arch,
   immutable_fingerprint |-> sha256_hex(canonicalize_json(arch)),
   prompts_fingerprint |-> CurrentPromptFingerprints,
   created_utc |-> ""]

cmd_decide(resp, arch, now) ==
  /\ calls < MaxCalls
  /\ calls' = calls + 1
  /\ runtime' = RequestWritten
  /\ UNCHANGED <<prompts, task_json, approvals, outputs, merge_state, merge_ptr, edits>>
  /\ IF resp = "ok"
       THEN /\ CanSave(DecidePayload(arch), task_json, now)
            /\ save_snapshot(DecidePayload(arch), task_json, now)
            /\ last' = Passed("decide", NoId, "-", FALSE, TRUE)
       ELSE /\ UNCHANGED <<snapshots, sha_files>>
            /\ last' = Failed("decide", NoId, "-", FALSE, LlmError(resp), TRUE)

Decide ==
  /\ UNCHANGED <<readme_ok, store_vars>>
  /\ IF enforce_readme_fingerprint_or_blocker
       THEN \/ \E arch \in Archs, now \in Stamps : cmd_decide("ok", arch, now)
            \/ \E resp \in {"cli_failed", "not_json"} : cmd_decide(resp, "a1", "u1")
       ELSE ReadmeBlocker("decide", NoId, "-", FALSE)

\* -------------------------------------------------- orchestrator.cmd_approve
\* emit(LEVEL_PASS, "OK", message) of cmd_approve
ApprovePassed(snapshot_id, message) ==
  Outcome("approve", snapshot_id, NoId, "-", FALSE, LEVEL_PASS, "OK", EXIT_PASS, "",
          message, FALSE)

\* a marker that exists is an error
cmd_approve_refusing_existing(snapshot_id) ==
  /\ UNCHANGED <<prompts, task_json, snapshots, sha_files, outputs, runtime,
                 merge_state, merge_ptr, edits, calls>>
  /\ IF snapshot_id \notin DOMAIN sha_files
       THEN /\ UNCHANGED approvals
            /\ last' = Failed("approve", snapshot_id, "-", FALSE,
                              Raise("FileNotFoundError", "", "HASH_FILE_NOT_FOUND"), FALSE)
       ELSE IF read_sha256_file(snapshot_id) = EmptyString
         THEN /\ UNCHANGED approvals
              /\ last' = Failed("approve", snapshot_id, "-", FALSE,
                                Raise("LifecycleViolation", "SNAPSHOT_INVALID", "EMPTY_SHA256_FILE"),
                                FALSE)
       ELSE IF approval_file_for_hash(read_sha256_file(snapshot_id)) \in approvals
         THEN /\ UNCHANGED approvals
              /\ last' = Failed("approve", snapshot_id, "-", FALSE,
                                Raise("FileExistsError", "", "APPROVAL_EXISTS"), FALSE)
         ELSE /\ approvals' = approvals \cup {approval_file_for_hash(read_sha256_file(snapshot_id))}
              /\ last' = ApprovePassed(snapshot_id, "approval created")

\* the marker named after the snapshot id
cmd_approve_keyed_by_id(snapshot_id) ==
  /\ UNCHANGED <<prompts, task_json, snapshots, sha_files, outputs, runtime,
                 merge_state, merge_ptr, edits, calls>>
  /\ IF snapshot_id \notin DOMAIN sha_files
       THEN /\ UNCHANGED approvals
            /\ last' = Failed("approve", snapshot_id, "-", FALSE,
                              Raise("FileNotFoundError", "", "HASH_FILE_NOT_FOUND"), FALSE)
       ELSE IF read_sha256_file(snapshot_id) = EmptyString
         THEN /\ UNCHANGED approvals
              /\ last' = Failed("approve", snapshot_id, "-", FALSE,
                                Raise("LifecycleViolation", "SNAPSHOT_INVALID", "EMPTY_SHA256_FILE"),
                                FALSE)
       ELSE IF snapshot_id \in approvals
         THEN /\ UNCHANGED approvals
              /\ last' = ApprovePassed(snapshot_id, "approval already exists (idempotent)")
         ELSE /\ approvals' = approvals \cup {snapshot_id}
              /\ last' = ApprovePassed(snapshot_id, "approval created")

cmd_approve(snapshot_id) ==
  /\ UNCHANGED <<prompts, task_json, snapshots, sha_files, outputs, runtime,
                 merge_state, merge_ptr, edits, calls>>
  /\ IF snapshot_id \notin DOMAIN sha_files
       THEN /\ UNCHANGED approvals
            /\ last' = Failed("approve", snapshot_id, "-", FALSE,
                              Raise("FileNotFoundError", "", "HASH_FILE_NOT_FOUND"), FALSE)
       ELSE IF read_sha256_file(snapshot_id) = EmptyString
         THEN /\ UNCHANGED approvals
              /\ last' = Failed("approve", snapshot_id, "-", FALSE,
                                Raise("LifecycleViolation", "SNAPSHOT_INVALID", "EMPTY_SHA256_FILE"),
                                FALSE)
       ELSE IF approval_file_for_hash(read_sha256_file(snapshot_id)) \in approvals
         THEN /\ UNCHANGED approvals
              /\ last' = ApprovePassed(snapshot_id, "approval already exists (idempotent)")
         ELSE /\ approvals' = approvals \cup {approval_file_for_hash(read_sha256_file(snapshot_id))}
              /\ last' = ApprovePassed(snapshot_id, "approval created")

\* a snapshot id for which nothing was ever saved
MissingId == <<"missing", EmptyString>>

Approve ==
  \E snapshot_id \in DOMAIN sha_files \cup {MissingId} :
    /\ UNCHANGED <<readme_ok, store_vars>>
    /\ IF enforce_readme_fingerprint_or_blocker
         THEN cmd_approve(snapshot_id)
         ELSE ReadmeBlocker("approve", snapshot_id, "-", FALSE)

\* ------------------------------------- orchestrator.preflight_execute_gate
\* arch_decision.get("task_id") or "task"
TaskOrDefault(task_id) == IF task_id = "" THEN "task" ELSE task_id

GateMergePtr(sid) ==
  <<TaskOrDefault(snapshots[sid].task_id), HashPrefix(read_sha256_file(sid))>>

MissingPromptKeys(arch_decision) ==
  {k \in PromptKeys : arch_decision.prompts_fingerprint[k] = Absent}

MismatchedPromptKeys(arch_decision) ==
  {k \in PromptKeys : arch_decision.prompts_fingerprint[k] # fingerprint_file(k)}

GatePass == Raise("none", "", "")

\* the checks of the gate one by one, and variants of the gate with a check
\* dropped or moved
GateCheckFails(sid, c) ==
  CASE c = "verify" -> ~verify_snapshot_files(sid).ok
    [] c = "empty_sha" -> read_sha256_file(sid) = EmptyString
    [] c = "approval" -> approval_file_for_hash(read_sha256_file(sid)) \notin approvals
    [] c = "merge_ptr" -> GateMergePtr(sid) \in DOMAIN merge_ptr
    [] c = "immutable_missing" -> snapshots[sid].immutable_fingerprint = Absent
    [] c = "immutable_mismatch" ->
         snapshots[sid].immutable_fingerprint # fingerprint_immutable_architecture(snapshots[sid])
    [] c = "prompt_missing" -> MissingPromptKeys(snapshots[sid]) # {}
    [] OTHER -> MismatchedPromptKeys(snapshots[sid]) # {}

GateCheckError(sid, c) ==
  CASE c = "verify" -> Raise("LifecycleViolation", "SNAPSHOT_INVALID", verify_snapshot_files(sid).msg)
    [] c = "empty_sha" -> Raise("LifecycleViolation", "SNAPSHOT_INVALID", "EMPTY_SHA256_FILE")
    [] c = "approval" -> Raise("LifecycleViolation", "LIFECYCLE_VIOLATION", "SNAPSHOT_NOT_APPROVED")
    [] c = "merge_ptr" ->
         Raise("LifecycleViolation", "EXECUTE_AFTER_MERGE", "EXECUTE forbidden after MERGE")
    [] c = "immutable_missing" ->
         Raise("LifecycleViolation", "SNAPSHOT_IMMUTABLE_VIOLATION", "immutable_fingerprint missing")
    [] c = "immutable_mismatch" -> Raise("LifecycleViolation", "FINGERPRINT_MISMATCH", "snapshot")
    [] c = "prompt_missing" ->
         Raise("LifecycleViolation", "SNAPSHOT_INVALID", "PROMPT_FINGERPRINT_MISSING")
    [] OTHER -> Raise("LifecycleViolation", "FINGERPRINT_MISMATCH", "prompt_fingerprints")

gate_with(sid, order) ==
  IF sid \notin DOMAIN snapshots
    THEN Raise("FileNotFoundError", "", "SNAPSHOT_NOT_FOUND")
  ELSE IF sid \notin DOMAIN sha_files
    THEN Raise("FileNotFoundError", "", "HASH_FILE_NOT_FOUND")
  ELSE LET failing == {i \in 1..Len(order) : GateCheckFails(sid, order[i])}
       IN IF failing = {} THEN GatePass
          ELSE GateCheckError(sid, order[CHOOSE i \in failing : \A j \in failing : i <= j])

\* the merge stop-condition left out
gate_without_merge_check(sid) ==
  gate_with(sid, <<"verify", "empty_sha", "approval", "immutable_missing",
                   "immutable_mismatch", "prompt_missing", "prompt_mismatch">>)

\* the approval check left out
gate_without_approval_check(sid) ==
  gate_with(sid, <<"verify", "empty_sha", "merge_ptr", "immutable_missing",
                   "immutable_mismatch", "prompt_missing", "prompt_mismatch">>)

\* the comparison of the prompt fingerprints left out
gate_without_prompt_comparison(sid) ==
  gate_with(sid, <<"verify", "empty_sha", "approval", "merge_ptr", "immutable_missing",
                   "immutable_mismatch", "prompt_missing">>)

\* the merge stop-condition placed before the approval check
gate_merge_before_approval(sid) ==
  gate_with(sid, <<"verify", "empty_sha", "merge_ptr", "approval", "immutable_missing",
                   "immutable_mismatch", "prompt_missing", "prompt_mismatch">>)

\* the immutable-architecture checks placed before the approval check
gate_architecture_before_approval(sid) ==
  gate_with(sid, <<"verify", "empty_sha", "immutable_missing", "immutable_mismatch",
                   "approval", "merge_ptr", "prompt_missing", "prompt_mismatch">>)

\* the value comparison of the prompt fingerprints placed before the key check
gate_mismatch_before_missing(sid) ==
  gate_with(sid, <<"verify", "empty_sha", "approval", "merge_ptr", "immutable_missing",
                   "immutable_mismatch", "prompt_mismatch", "prompt_missing">>)

\* the exception the gate raises, or GatePass when it returns
preflight_execute_gate(sid) ==
  IF sid \notin DOMAIN snapshots
    THEN Raise("FileNotFoundError", "", "SNAPSHOT_NOT_FOUND")
  ELSE IF sid \notin DOMAIN sha_files
    THEN Raise("FileNotFoundError", "", "HASH_FILE_NOT_FOUND")
  ELSE IF ~verify_snapshot_files(sid).ok
    THEN Raise("LifecycleViolation", "SNAPSHOT_INVALID", verify_snapshot_files(sid).msg)
  ELSE IF read_sha256_file(sid) = EmptyString
    THEN Raise("LifecycleViolation", "SNAPSHOT_INVALID", "EMPTY_SHA256_FILE")
  ELSE IF approval_file_for_hash(read_sha256_file(sid)) \notin approvals
    THEN Raise("LifecycleViolation", "LIFECYCLE_VIOLATION", "SNAPSHOT_NOT_APPROVED")
  ELSE IF GateMergePtr(sid) \in DOMAIN merge_ptr
    THEN Raise("LifecycleViolation", "EXECUTE_AFTER_MERGE", "EXECUTE forbidden after MERGE")
  ELSE IF snapshots[sid].immutable_fingerprint = Absent
    THEN Raise("LifecycleViolation", "SNAPSHOT_IMMUTABLE_VIOLATION", "immutable_fingerprint missing")
  ELSE IF snapshots[sid].immutable_fingerprint # fingerprint_immutable_architecture(snapshots[sid])
    THEN Raise("LifecycleViolation", "FINGERPRINT_MISMATCH", "snapshot")
  ELSE IF MissingPromptKeys(snapshots[sid]) # {}
    THEN Raise("LifecycleViolation", "SNAPSHOT_INVALID", "PROMPT_FINGERPRINT_MISSING")
  ELSE IF MismatchedPromptKeys(snapshots[sid]) # {}
    THEN Raise("LifecycleViolation", "FINGERPRINT_MISMATCH", "prompt_fingerprints")
  ELSE GatePass

\* --------------------------------------------------- orchestrator.cmd_execute
NoFile == <<"nofile">>
EmptyDir == [raw |-> FALSE, exec_fp |-> NoFile, parts |-> FALSE]

\* outputs/pass_2/<task_id>__<hash_hex[:12]>/<stage>
OutDir(sid, stage) == <<<<task_json, HashPrefix(read_sha256_file(sid))>>, stage>>

\* exec_json.setdefault("immutable_fingerprint", immutable_fp)
keep_returned_fingerprint(returned, immutable_fp) ==
  IF returned = Absent THEN immutable_fp ELSE returned

\* exec_json["immutable_fingerprint"] = immutable_fp
stamp_immutable_fingerprint(returned, immutable_fp) == immutable_fp

\* what is left in the stage directory after run_llm answered with resp
StageDirAfter(resp, immutable_fp) ==
  CASE resp = "cli_failed" -> EmptyDir
    [] resp = "not_json" -> [raw |-> TRUE, exec_fp |-> NoFile, parts |-> FALSE]
    [] resp = "immutable_architecture_in_deliverables" ->
         [raw |-> TRUE, exec_fp |-> NoFile, parts |-> FALSE]
    [] resp = "deliverables_not_a_mapping" ->
         [raw |-> TRUE,
          exec_fp |-> stamp_immutable_fingerprint(ReturnedFingerprint(resp), immutable_fp),
          parts |-> FALSE]
    [] OTHER ->
         [raw |-> TRUE,
          exec_fp |-> stamp_immutable_fingerprint(ReturnedFingerprint(resp), immutable_fp),
          parts |-> TRUE]

\* the existence check skipped
output_dir_never_refused(out_dir, force) == FALSE

\* out_dir.exists() and any(out_dir.iterdir()), and not force
output_dir_refused(out_dir, force) ==
  out_dir \in DOMAIN outputs /\ outputs[out_dir] # EmptyDir /\ ~force

\* shutil.rmtree applied to the run directory, the parent of out_dir
run_dir_recreated(out_dir, dir) ==
  [k \in {j \in DOMAIN outputs : j[1] # out_dir[1]} \cup {out_dir} |->
     IF k = out_dir THEN dir ELSE outputs[k]]

\* shutil.rmtree(out_dir) if it is being replaced, mkdir, then the writes
stage_dir_recreated(out_dir, dir) == Put(outputs, out_dir, dir)

cmd_execute(sid, stage, force) ==
  LET gate == preflight_execute_gate(sid)
      immutable_fp == fingerprint_immutable_architecture(snapshots[sid])
      out_dir == OutDir(sid, stage)
  IN
  /\ UNCHANGED <<prompts, task_json, snapshots, sha_files, approvals,
                 merge_state, merge_ptr, edits>>
  /\ IF gate # GatePass
       THEN /\ UNCHANGED <<outputs, runtime, calls>>
            /\ last' = Failed("execute", sid, stage, force, gate, FALSE)
     ELSE IF snapshots[sid].task_id # task_json
       THEN /\ UNCHANGED <<outputs, runtime, calls>>
            /\ last' = Failed("execute", sid, stage, force,
                              Raise("ValueError", "TASK_ID_MISMATCH", ""), FALSE)
     ELSE IF output_dir_refused(out_dir, force)
       THEN /\ UNCHANGED <<outputs, runtime, calls>>
            /\ last' = Failed("execute", sid, stage, force,
                              Raise("FileExistsError", "OUTPUT_DIR_EXISTS", ""), FALSE)
     ELSE \E resp \in LlmResponses :
          /\ calls < MaxCalls
          /\ calls' = calls + 1
          /\ runtime' = RequestWritten
          /\ outputs' = stage_dir_recreated(out_dir, StageDirAfter(resp, immutable_fp))
          /\ last' = IF LlmOk(resp)
                       THEN Passed("execute", sid, stage, force, TRUE)
                       ELSE Failed("execute", sid, stage, force, LlmError(resp), TRUE)

Execute ==
  \E sid \in DOMAIN snapshots \cup {MissingId}, stage \in Stages, force \in BOOLEAN :
    /\ UNCHANGED <<readme_ok, store_vars>>
    /\ IF enforce_readme_fingerprint_or_blocker
         THEN cmd_execute(sid, stage, force)
         ELSE ReadmeBlocker("execute", sid, stage, force)

\* -------------------------------------------------------- merge_pass2.merge
WellFormedId(id) == Len(id) = 2

MalformedId == <<"no_separator">>

BaseDirExists(id) == \E st \in Stages : <<id, st>> \in DOMAIN outputs

StageFilesPresent(id, st) == outputs[<<id, st>>].parts

ExecFp(id, st) == outputs[<<id, st>>].exec_fp

\* not core_fp written as "core_fp is None"
FalsyOnlyNone(fp) == fp = Absent

\* not core_fp: None and "" are both falsy
Falsy(fp) == fp = Absent \/ fp = EmptyString

\* the record written without the fingerprint of the stage outputs
MergeRecordWithoutFingerprint(core_snapshot_id, anchors_snapshot_id, core_fp) ==
  [merge_id |-> core_snapshot_id,
   task_id |-> core_snapshot_id[1],
   hashprefix |-> core_snapshot_id[2],
   immutable_fingerprint |-> Absent,
   core_snapshot_id |-> core_snapshot_id,
   anchors_snapshot_id |-> anchors_snapshot_id]

MergeRecord(core_snapshot_id, anchors_snapshot_id, core_fp) ==
  [merge_id |-> core_snapshot_id,
   task_id |-> core_snapshot_id[1],
   hashprefix |-> core_snapshot_id[2],
   immutable_fingerprint |-> core_fp,
   core_snapshot_id |-> core_snapshot_id,
   anchors_snapshot_id |-> anchors_snapshot_id]

MergeExit(level, code, detail) == [level |-> level, code |-> code, detail |-> detail]

MergePass == MergeExit(LEVEL_PASS, "OK", "")

\* the two identifiers compared on the task id alone
SameTaskOnly(core_snapshot_id, anchors_snapshot_id) ==
  core_snapshot_id[1] = anchors_snapshot_id[1]

\* (core_task_id, core_hashprefix) == (anch_task_id, anch_hashprefix)
SameRun(core_snapshot_id, anchors_snapshot_id) ==
  <<core_snapshot_id[1], core_snapshot_id[2]>> = <<anchors_snapshot_id[1], anchors_snapshot_id[2]>>

\* merge() without the two "already exists" checks
merge_checks_overwriting(core_snapshot_id, anchors_snapshot_id) ==
  IF DOMAIN outputs = {}
    THEN MergeExit(LEVEL_FAIL, "IO_ERROR", "missing required directory: outputs/pass_2")
  ELSE IF ~BaseDirExists(core_snapshot_id)
    THEN MergeExit(LEVEL_FAIL, "IO_ERROR", "missing required directory: CORE snapshot")
  ELSE IF ~BaseDirExists(anchors_snapshot_id)
    THEN MergeExit(LEVEL_FAIL, "IO_ERROR", "missing required directory: ANCHORS snapshot")
  ELSE IF ~WellFormedId(core_snapshot_id) \/ ~WellFormedId(anchors_snapshot_id)
    THEN MergeExit(LEVEL_FAIL, "INVALID_ARGUMENT", "invalid snapshot_id format")
  ELSE IF ~SameRun(core_snapshot_id, anchors_snapshot_id)
    THEN MergeExit(LEVEL_FAIL, "TASK_ID_MISMATCH", "CORE and ANCHORS belong to different runs")
  ELSE IF \/ <<core_snapshot_id, "core">> \notin DOMAIN outputs
          \/ <<anchors_snapshot_id, "anchors">> \notin DOMAIN outputs
    THEN MergeExit(LEVEL_FAIL, "IO_ERROR", "missing required directory")
  ELSE IF \/ ~StageFilesPresent(core_snapshot_id, "core")
          \/ ~StageFilesPresent(anchors_snapshot_id, "anchors")
          \/ ExecFp(core_snapshot_id, "core") = NoFile
          \/ ExecFp(anchors_snapshot_id, "anchors") = NoFile
    THEN MergeExit(LEVEL_FAIL, "IO_ERROR", "missing required file")
  ELSE IF Falsy(ExecFp(core_snapshot_id, "core")) \/ Falsy(ExecFp(anchors_snapshot_id, "anchors"))
    THEN MergeExit(LEVEL_BLOCKER, "SNAPSHOT_IMMUTABLE_VIOLATION", "immutable_fingerprint missing")
  ELSE IF ExecFp(core_snapshot_id, "core") # ExecFp(anchors_snapshot_id, "anchors")
    THEN MergeExit(LEVEL_BLOCKER, "MERGE_FINGERPRINT_MISMATCH", "immutable_fingerprint mismatch")
  ELSE MergePass

\* the checks of merge() in source order: the first failure, or MergePass
merge_checks(core_snapshot_id, anchors_snapshot_id) ==
  IF DOMAIN outputs = {}
    THEN MergeExit(LEVEL_FAIL, "IO_ERROR", "missing required directory: outputs/pass_2")
  ELSE IF ~BaseDirExists(core_snapshot_id)
    THEN MergeExit(LEVEL_FAIL, "IO_ERROR", "missing required directory: CORE snapshot")
  ELSE IF ~BaseDirExists(anchors_snapshot_id)
    THEN MergeExit(LEVEL_FAIL, "IO_ERROR", "missing required directory: ANCHORS snapshot")
  ELSE IF ~WellFormedId(core_snapshot_id)
    THEN MergeExit(LEVEL_FAIL, "INVALID_ARGUMENT", "invalid core_snapshot_id format")
  ELSE IF ~WellFormedId(anchors_snapshot_id)
    THEN MergeExit(LEVEL_FAIL, "INVALID_ARGUMENT", "invalid anchors_snapshot_id format")
  ELSE IF ~SameRun(core_snapshot_id, anchors_snapshot_id)
    THEN MergeExit(LEVEL_FAIL, "TASK_ID_MISMATCH", "CORE and ANCHORS belong to different runs")
  ELSE IF core_snapshot_id \in DOMAIN merge_state
    THEN MergeExit(LEVEL_BLOCKER, "MERGE_STATE_EXISTS", "merge-state already exists")
  ELSE IF core_snapshot_id \in DOMAIN merge_ptr
    THEN MergeExit(LEVEL_BLOCKER, "MERGE_STATE_EXISTS", "merge pointer already exists")
  ELSE IF <<core_snapshot_id, "core">> \notin DOMAIN outputs
    THEN MergeExit(LEVEL_FAIL, "IO_ERROR", "missing required directory: core")
  ELSE IF <<anchors_snapshot_id, "anchors">> \notin DOMAIN outputs
    THEN MergeExit(LEVEL_FAIL, "IO_ERROR", "missing required directory: anchors")
  ELSE IF ~StageFilesPresent(core_snapshot_id, "core")
    THEN MergeExit(LEVEL_FAIL, "IO_ERROR", "missing required file: core deliverable")
  ELSE IF ~StageFilesPresent(anchors_snapshot_id, "anchors")
    THEN MergeExit(LEVEL_FAIL, "IO_ERROR", "missing required file: anchors/anchors.json")
  ELSE IF ExecFp(core_snapshot_id, "core") = NoFile
    THEN MergeExit(LEVEL_FAIL, "IO_ERROR", "missing required file: core/execution_result.json")
  ELSE IF ExecFp(anchors_snapshot_id, "anchors") = NoFile
    THEN MergeExit(LEVEL_FAIL, "IO_ERROR", "missing required file: anchors/execution_result.json")
  ELSE IF Falsy(ExecFp(core_snapshot_id, "core")) \/ Falsy(ExecFp(anchors_snapshot_id, "anchors"))
    THEN MergeExit(LEVEL_BLOCKER, "SNAPSHOT_IMMUTABLE_VIOLATION", "immutable_fingerprint missing")
  ELSE IF ExecFp(core_snapshot_id, "core") # ExecFp(anchors_snapshot_id, "anchors")
    THEN MergeExit(LEVEL_BLOCKER, "MERGE_FINGERPRINT_MISMATCH", "immutable_fingerprint mismatch")
  ELSE MergePass

\* merge_pass2 __main__: MergeContractViolation -> 2, SystemExit(EXIT_FAIL) -> 1
merge_exit_code(level) ==
  IF level = LEVEL_PASS THEN EXIT_PASS
  ELSE IF level = LEVEL_BLOCKER THEN EXIT_BLOCKER ELSE EXIT_FAIL

MergeOutcome(core_snapshot_id, anchors_snapshot_id, res) ==
  Outcome("merge", core_snapshot_id, anchors_snapshot_id, "-", FALSE,
          res.level, res.code, merge_exit_code(res.level), res.code, res.detail, FALSE)

\* ptr_written = FALSE: the write of the pointer file (lines 277-278) raises OSError
\* after the Merge Record has been written
merge(core_snapshot_id, anchors_snapshot_id) ==
  LET res == merge_checks(core_snapshot_id, anchors_snapshot_id)
      merge_id == core_snapshot_id
  IN
  /\ UNCHANGED <<prompts, task_json, snapshots, sha_files, approvals, outputs,
                 runtime, edits, calls>>
  /\ IF res # MergePass
       THEN /\ UNCHANGED <<merge_state, merge_ptr>>
            /\ last' = MergeOutcome(core_snapshot_id, anchors_snapshot_id, res)
     ELSE \E ptr_written \in BOOLEAN :
          /\ merge_state' = Put(merge_state, merge_id,
                                MergeRecord(core_snapshot_id, anchors_snapshot_id,
                                            ExecFp(core_snapshot_id, "core")))
          /\ IF ptr_written
               THEN /\ merge_ptr' = Put(merge_ptr, merge_id, merge_id)
                    /\ last' = MergeOutcome(core_snapshot_id, anchors_snapshot_id, MergePass)
               ELSE /\ UNCHANGED merge_ptr
                    /\ last' = MergeOutcome(core_snapshot_id, anchors_snapshot_id,
                                 MergeExit(LEVEL_FAIL, "IO_ERROR", "unexpected runtime error"))

RunIds == {k[1] : k \in DOMAIN outputs}

Merge ==
  \E core_snapshot_id \in RunIds \cup DOMAIN snapshots \cup {MalformedId},
     anchors_snapshot_id \in RunIds \cup DOMAIN snapshots \cup {MalformedId} :
    /\ UNCHANGED <<readme_ok, store_vars>>
    /\ merge(core_snapshot_id, anchors_snapshot_id)

\* ------------------------------------------- lifecycle.infer_snapshot_state
\* len(s) < n: the empty text stays empty, a digest gives its first 12 characters
_sha_prefix(sha256_hex_text) == HashPrefix(sha256_hex_text)

\* the facts infer_snapshot_state reads from the tree (lines 76-104)
LifecycleFacts(snapshot_id) ==
  LET has_sha == snapshot_id \in DOMAIN sha_files
      sha256_hex_text == IF has_sha THEN sha_files[snapshot_id] ELSE EmptyString
  IN [snapshot |-> snapshot_id \in DOMAIN snapshots,
      approved |-> has_sha /\ sha256_hex_text \in approvals,
      has_core |-> <<snapshot_id, "core">> \in DOMAIN outputs,
      has_anchors |-> <<snapshot_id, "anchors">> \in DOMAIN outputs,
      merged |-> /\ sha256_hex_text # EmptyString
                 /\ task_json # ""
                 /\ <<task_json, _sha_prefix(sha256_hex_text)>> \in DOMAIN merge_ptr]

\* the approval marker looked at before the stage directories
infer_approval_before_outputs(snapshot_id) ==
  LET f == LifecycleFacts(snapshot_id)
  IN IF ~f.snapshot THEN "NO_SNAPSHOT"
     ELSE IF f.merged THEN "MERGED"
     ELSE IF f.approved THEN "APPROVED"
     ELSE IF f.has_core /\ f.has_anchors THEN "EXECUTED_BOTH"
     ELSE IF f.has_anchors THEN "EXECUTED_ANCHORS"
     ELSE IF f.has_core THEN "EXECUTED_CORE"
     ELSE "SNAPSHOT_PRESENT"

infer_snapshot_state(snapshot_id) ==
  LET f == LifecycleFacts(snapshot_id)
  IN IF ~f.snapshot THEN "NO_SNAPSHOT"
     ELSE IF f.merged THEN "MERGED"
     ELSE IF f.has_core /\ f.has_anchors THEN "EXECUTED_BOTH"
     ELSE IF f.has_anchors THEN "EXECUTED_ANCHORS"
     ELSE IF f.has_core THEN "EXECUTED_CORE"
     ELSE IF f.approved THEN "APPROVED"
     ELSE "SNAPSHOT_PRESENT"

\* ------------------------------------------------- hand edits of the tree
OtherArch(a) == CHOOSE b \in Archs : b # a
OtherBody(b) == CHOOSE c \in PromptBodies : c # b

DefectKeys == {"pass_2_execute_core_md"}

\* defects a hand-written or hand-edited payload may carry
Defects(p) ==
  {[p EXCEPT !.immutable_fingerprint = Absent],
   [p EXCEPT !.immutable_fingerprint =
        sha256_hex(canonicalize_json(OtherArch(p.immutable_architecture)))]}
  \cup {[p EXCEPT !.prompts_fingerprint[k] = Absent] : k \in DefectKeys}
  \cup {[p EXCEPT !.prompts_fingerprint[k] = sha256_hex(OtherBody(prompts[k].body))] :
          k \in DefectKeys}
  \cup {[p EXCEPT !.prompts_fingerprint["pass_2_execute_core_md"] = Absent,
                  !.prompts_fingerprint["pass_2_execute_anchors_md"] =
                      sha256_hex(OtherBody(prompts["pass_2_execute_anchors_md"].body))]}

Tampered(p) ==
  Defects(p)
  \cup {[p EXCEPT !.created_utc = EditedStamp],
        [p EXCEPT !.immutable_architecture = OtherArch(p.immutable_architecture)]}

\* save_snapshot called directly with a payload that cmd_decide did not build
SaveSnapshot ==
  \E arch \in Archs, now \in Stamps :
    \E p \in {DecidePayload(arch)} \cup Defects(DecidePayload(arch)) :
      /\ edits < MaxEdits
      /\ CanSave(p, task_json, now)
      /\ save_snapshot(p, task_json, now)
      /\ edits' = edits + 1
      /\ UNCHANGED calls
      /\ last' = EnvOutcome("save")
      /\ UNCHANGED <<readme_ok, store_vars>>
      /\ UNCHANGED <<prompts, task_json, approvals, outputs, runtime,
                     merge_state, merge_ptr>>

EditSnapshot ==
  \E sid \in DOMAIN snapshots : \E p \in Tampered(snapshots[sid]) :
    /\ edits < MaxEdits
    /\ p # snapshots[sid]
    /\ snapshots' = [snapshots EXCEPT ![sid] = p]
    /\ edits' = edits + 1
    /\ UNCHANGED calls
    /\ last' = EnvOutcome("edit_snapshot")
    /\ UNCHANGED <<readme_ok, store_vars>>
    /\ UNCHANGED <<prompts, task_json, sha_files, approvals, outputs, runtime,
                   merge_state, merge_ptr>>

\* a rewritten prompt, or the same prompt saved with Windows line endings
PromptEdits == {[body |-> "v2", eol |-> "lf"], [body |-> "v1", eol |-> "crlf"]}

EditPrompt ==
  \E k \in PromptKeys, raw \in PromptEdits :
    /\ edits < MaxEdits
    /\ prompts[k] # raw
    /\ prompts' = [prompts EXCEPT ![k] = raw]
    /\ edits' = edits + 1
    /\ UNCHANGED calls
    /\ last' = EnvOutcome("edit_prompt")
    /\ UNCHANGED <<readme_ok, store_vars>>
    /\ UNCHANGED <<task_json, snapshots, sha_files, approvals, outputs, runtime,
                   merge_state, merge_ptr>>

EditTask ==
  \E t \in TaskIds :
    /\ edits < MaxEdits
    /\ t # task_json
    /\ task_json' = t
    /\ edits' = edits + 1
    /\ UNCHANGED calls
    /\ last' = EnvOutcome("edit_task")
    /\ UNCHANGED <<readme_ok, store_vars>>
    /\ UNCHANGED <<prompts, snapshots, sha_files, approvals, outputs, runtime,
                   merge_state, merge_ptr>>

OtherTask(t) == CHOOSE u \in TaskIds : u # t

\* run ids that differ from a snapshot's id in the task id only, or in the
\* digest prefix only
ForeignRunIds ==
  {<<OtherTask(sid[1]), sid[2]>> : sid \in DOMAIN snapshots}
  \cup {<<sid[1], HashPrefix(sha256_hex(canonicalize_json(
                      [snapshots[sid] EXCEPT !.created_utc = EditedStamp])))>> :
          sid \in DOMAIN snapshots}

\* a stage directory written by hand, as tests/smoke/test_full_lifecycle.py does
WriteStageOutput ==
  \E run_id \in DOMAIN snapshots \cup ForeignRunIds \cup {MalformedId},
     stages \in (SUBSET Stages) \ {{}},
     fp \in {Absent, EmptyString} \cup {sha256_hex(canonicalize_json(a)) : a \in Archs} :
    /\ edits < MaxEdits
    /\ outputs' = [k \in DOMAIN outputs \cup {<<run_id, st>> : st \in stages} |->
                     IF k[1] = run_id /\ k[2] \in stages
                       THEN [raw |-> FALSE, exec_fp |-> fp, parts |-> TRUE]
                       ELSE outputs[k]]
    /\ edits' = edits + 1
    /\ UNCHANGED calls
    /\ last' = EnvOutcome("write_stage_output")
    /\ UNCHANGED <<readme_ok, store_vars>>
    /\ UNCHANGED <<prompts, task_json, snapshots, sha_files, approvals, runtime,
                   merge_state, merge_ptr>>

\* README.md edited without refreshing README.sha256, or the digest refreshed
EditReadme ==
  /\ edits < MaxEdits
  /\ readme_ok' = ~readme_ok
  /\ edits' = edits + 1
  /\ last' = EnvOutcome("edit_readme")
  /\ UNCHANGED <<prompts, task_json, snapshots, sha_files, approvals, outputs, runtime,
                 merge_state, merge_ptr, calls, store_vars>>

Next ==
  \/ Decide
  \/ SaveSnapshot
  \/ Approve
  \/ Execute
  \/ Merge
  \/ EditSnapshot
  \/ EditPrompt
  \/ EditTask
  \/ WriteStageOutput
  \/ EditReadme

Spec == Init /\ [][Next]_vars

\* --------------------------------- state_utils.py on ordered documents
\* A JSON value is <<"str", s>> or <<"obj", items>>, items being the sequence of
\* <<key, value>> pairs of a dict in insertion order.  A text is its sequence of
\* tokens: "{", "}", ":", ",", a key, a string, and "ws" for a run of whitespace.
MaxStored == 1
StoreStamps == {"u1", "u2"}
LeafValues == {<<"str", "p">>, <<"str", "q">>}

\* the keys in use, in the order of Python's str comparison
KeyOrder == <<"a", "created_utc", "meta", "note">>
KeyRank(k) == CHOOSE i \in 1..Len(KeyOrder) : KeyOrder[i] = k

DistinctKeys(S) == \A x \in S, y \in S : x[1] = y[1] => x = y
Orderings(S) ==
  {s \in [1..Cardinality(S) -> S] : \A i, j \in 1..Cardinality(S) : s[i] = s[j] => i = j}
Objects(members) ==
  {<<"obj", s>> : s \in UNION {Orderings(S) : S \in {T \in SUBSET members : DistinctKeys(T)}}}

MetaObjects ==
  Objects({<<"created_utc", <<"str", u>>>> : u \in StoreStamps}
          \cup {<<"note", <<"str", "p">>>>})
Payloads ==
  Objects({<<"a", l>> : l \in LeafValues} \cup {<<"meta", m>> : m \in MetaObjects})

\* dict operations
HasKey(items, k) == \E i \in 1..Len(items) : items[i][1] = k
Lookup(items, k) == items[CHOOSE i \in 1..Len(items) : items[i][1] = k][2]
DictSet(items, k, v) ==
  IF HasKey(items, k)
    THEN [i \in 1..Len(items) |-> IF items[i][1] = k THEN <<k, v>> ELSE items[i]]
    ELSE Append(items, <<k, v>>)

\* sort_keys left out of json.dumps
items_unsorted(items) == items

\* json.dumps(sort_keys=True): sorted(dct.items())
items_sorted(items) == SortSeq(items, LAMBDA x, y : KeyRank(x[1]) < KeyRank(y[1]))

Whitespace(indent) == IF indent THEN <<"ws">> ELSE <<>>

RECURSIVE json_dumps(_, _, _)
RECURSIVE dump_items(_, _, _)
dump_items(items, sort_keys, indent) ==
  IF items = <<>> THEN <<>>
  ELSE <<Head(items)[1], ":">> \o Whitespace(indent)
         \o json_dumps(Head(items)[2], sort_keys, indent)
         \o (IF Len(items) > 1 THEN <<",">> \o Whitespace(indent) ELSE <<>>)
         \o dump_items(Tail(items), sort_keys, indent)

\* json.dumps(obj, sort_keys=sort_keys, indent=2 if indent else None)
json_dumps(obj, sort_keys, indent) ==
  IF obj[1] = "str" THEN <<obj[2]>>
  ELSE LET items == IF sort_keys THEN items_sorted(obj[2]) ELSE obj[2]
       IN IF items = <<>> THEN <<"{", "}">>
          ELSE <<"{">> \o Whitespace(indent) \o dump_items(items, sort_keys, indent)
                 \o Whitespace(indent) \o <<"}">>

\* json.loads: whitespace between tokens is skipped, an object becomes a dict
RECURSIVE parse_value(_, _)
RECURSIVE parse_items(_, _, _)
parse_value(tokens, i) ==
  IF tokens[i] = "{" THEN parse_items(tokens, i + 1, <<>>)
  ELSE [val |-> <<"str", tokens[i]>>, next |-> i + 1]

parse_items(tokens, i, acc) ==
  IF tokens[i] = "}" THEN [val |-> <<"obj", acc>>, next |-> i + 1]
  ELSE LET j == IF tokens[i] = "," THEN i + 1 ELSE i
           v == parse_value(tokens, j + 2)
       IN parse_items(tokens, v.next, DictSet(acc, tokens[j], v.val))

json_loads(text) == parse_value(SelectSeq(text, LAMBDA t : t # "ws"), 1).val

\* canonicalize_json on an ordered document
canonical_json(obj) == json_dumps(obj, TRUE, FALSE)

\* read_sha256_file on the lines of the file: the first non-blank line
first_nonblank_line(lines) ==
  LET nonblank == SelectSeq(lines, LAMBDA l : l # EmptyString)
  IN IF nonblank = <<>> THEN EmptyString ELSE nonblank[1]

\* save_snapshot, lines 99-102: meta = dict(arch.get("meta", {}));
\* meta.setdefault("created_utc", utc_now_iso()); arch["meta"] = meta
stamp_created_utc(arch_decision_json, now) ==
  LET arch == arch_decision_json[2]
      meta == IF HasKey(arch, "meta") THEN Lookup(arch, "meta")[2] ELSE <<>>
      stamped == IF HasKey(meta, "created_utc") THEN meta
                 ELSE Append(meta, <<"created_utc", <<"str", now>>>>)
  IN <<"obj", DictSet(arch, "meta", <<"obj", stamped>>)>>

\* the digest taken of the payload as passed in, the stamped payload written
snapshot_files_hashed_before_stamp(arch_decision_json, task_id, now) ==
  LET arch == stamp_created_utc(arch_decision_json, now)
      canonical == canonical_json(arch_decision_json)
      digest == sha256_hex(canonical)
  IN [base |-> SnapshotId(task_id, digest),
      snapshot_json |-> json_dumps(arch, FALSE, TRUE),
      canonical_json |-> canonical,
      sha256 |-> <<digest>>]

\* save_snapshot: the id and the three texts it writes
snapshot_files(arch_decision_json, task_id, now) ==
  LET arch == stamp_created_utc(arch_decision_json, now)
      canonical == canonical_json(arch)
      digest == sha256_hex(canonical)
  IN [base |-> SnapshotId(task_id, digest),
      snapshot_json |-> json_dumps(arch, FALSE, TRUE),
      canonical_json |-> canonical,
      sha256 |-> <<digest>>]

\* verify_snapshot_files on the texts of <id>.snapshot.json and <id>.sha256
verify_snapshot_texts(snapshot_json, sha256) ==
  LET arch == json_loads(snapshot_json)
      expected == first_nonblank_line(sha256)
  IN IF expected = EmptyString THEN [ok |-> FALSE, msg |-> "EMPTY_SHA256_FILE"]
     ELSE IF sha256_hex(canonical_json(arch)) # expected
       THEN [ok |-> FALSE, msg |-> "HASH_MISMATCH"]
     ELSE [ok |-> TRUE, msg |-> "OK"]


\* ------------------------------------------ the snapshot store, step by step
StoredFiles(f) ==
  [snapshot_json |-> f.snapshot_json, canonical_json |-> f.canonical_json,
   sha256 |-> f.sha256]

\* save_snapshot(arch_decision_json, snapshots_dir, task_id) called at time now
StoreSave ==
  \E arch_decision_json \in Payloads, task_id \in TaskIds, now \in StoreStamps :
    LET f == snapshot_files(arch_decision_json, task_id, now)
    IN /\ \/ f.base \in DOMAIN snapshots_dir
          \/ Cardinality(DOMAIN snapshots_dir) < MaxStored
       /\ snapshots_dir' = Put(snapshots_dir, f.base, StoredFiles(f))
       /\ ret' = Result("save", f.base, task_id, f.base \in DOMAIN snapshots_dir, TRUE, "",
                        arch_decision_json, EmptyObject, EmptyString, EmptyString)
       /\ UNCHANGED vars

\* verify_snapshot_files(snapshot_path, hash_path) of a stored id
StoreVerify ==
  \E id \in DOMAIN snapshots_dir :
    LET v == verify_snapshot_texts(snapshots_dir[id].snapshot_json, snapshots_dir[id].sha256)
    IN /\ ret' = Result("verify", id, id[1], TRUE, v.ok, v.msg,
                        EmptyObject, EmptyObject, EmptyString, EmptyString)
       /\ UNCHANGED <<snapshots_dir, vars>>

\* the canonical file is the text whose digest the .sha256 file holds
CanonicalIntact(id) ==
  sha256_hex(snapshots_dir[id].canonical_json) = first_nonblank_line(snapshots_dir[id].sha256)

\* <id>.canonical.json edited by hand: its first byte dropped, or a byte added
TamperCanonical ==
  \E id \in DOMAIN snapshots_dir :
    \E text \in {Tail(snapshots_dir[id].canonical_json),
                 Append(snapshots_dir[id].canonical_json, "ws")} :
      /\ CanonicalIntact(id)
      /\ snapshots_dir' = [snapshots_dir EXCEPT ![id].canonical_json = text]
      /\ ret' = Result("tamper_canonical", id, id[1], TRUE, TRUE, "",
                       EmptyObject, EmptyObject, EmptyString, EmptyString)
      /\ UNCHANGED vars

Reversed(items) == [i \in 1..Len(items) |-> items[Len(items) + 1 - i]]

\* <id>.snapshot.json edited by hand: re-indented, its keys reordered, or a value changed
TamperSnapshot ==
  \E id \in DOMAIN snapshots_dir :
    LET arch == json_loads(snapshots_dir[id].snapshot_json)
    IN \E text \in {json_dumps(arch, FALSE, FALSE),
                    json_dumps(<<"obj", Reversed(arch[2])>>, FALSE, TRUE),
                    json_dumps(<<"obj", DictSet(arch[2], "a", <<"str", "q">>)>>, FALSE, TRUE)} :
         /\ text # snapshots_dir[id].snapshot_json
         /\ snapshots_dir' = [snapshots_dir EXCEPT ![id].snapshot_json = text]
         /\ ret' = Result("tamper_snapshot", id, id[1], TRUE, TRUE, "",
                          EmptyObject, EmptyObject, EmptyString, EmptyString)
         /\ UNCHANGED vars

NextStore ==
  \/ StoreSave
  \/ StoreVerify
  \/ TamperCanonical
  \/ TamperSnapshot

SpecStore == Init /\ [][NextStore]_<<vars, store_vars>>

\* ---------------------------------------- save_snapshot, one write a step
\* A step is one statement of save_snapshot: each write_text is one write. The
\* process may stop after any of them, and a later save may start on the same
\* directory. An entry of the directory holds the three texts and the set of
\* files that exist.
save_writes_digest_first(base) == <<"sha256", "snapshot", "canonical">>

\* lines 112-114: snapshot_path, canonical_path, hash_path
save_writes(base) == <<"snapshot", "canonical", "sha256">>

NoFiles ==
  [base |-> NoId, snapshot_json |-> <<>>, canonical_json |-> <<>>, sha256 |-> <<>>]

NoEntry == [snapshot_json |-> <<>>, canonical_json |-> <<>>, sha256 |-> <<>>, written |-> {}]

EntryOf(id) == IF id \in DOMAIN snapshots_dir THEN snapshots_dir[id] ELSE NoEntry

\* path.write_text(text) of one of the three files of f
WriteFile(entry, file, f) ==
  CASE file = "snapshot" ->
         [entry EXCEPT !.snapshot_json = f.snapshot_json, !.written = @ \cup {file}]
    [] file = "canonical" ->
         [entry EXCEPT !.canonical_json = f.canonical_json, !.written = @ \cup {file}]
    [] OTHER ->
         [entry EXCEPT !.sha256 = f.sha256, !.written = @ \cup {file}]

InitSave ==
  /\ InitTree
  /\ ret = [op |-> "idle", f |-> NoFiles, k |-> 0]

\* save_snapshot up to line 110: the payload stamped, the digest and the paths
SaveStart ==
  \E arch_decision_json \in Payloads, task_id \in TaskIds, now \in StoreStamps :
    LET f == snapshot_files(arch_decision_json, task_id, now)
    IN /\ ret.op = "idle"
       /\ \/ f.base \in DOMAIN snapshots_dir
          \/ Cardinality(DOMAIN snapshots_dir) < MaxStored
       /\ ret' = [op |-> "saving",
                  f |-> [base |-> f.base, snapshot_json |-> f.snapshot_json,
                         canonical_json |-> f.canonical_json, sha256 |-> f.sha256],
                  k |-> 0]
       /\ UNCHANGED <<snapshots_dir, vars>>

\* the next of the three writes; after the third save_snapshot returns
SaveWrite ==
  LET file == save_writes(ret.f.base)[ret.k + 1]
  IN /\ ret.op = "saving"
     /\ snapshots_dir' = Put(snapshots_dir, ret.f.base,
                             WriteFile(EntryOf(ret.f.base), file, ret.f))
     /\ ret' = IF ret.k = 2
                 THEN [op |-> "idle", f |-> NoFiles, k |-> 0]
                 ELSE [ret EXCEPT !.k = @ + 1]
     /\ UNCHANGED vars

\* the process is killed before its next write
SaveCrash ==
  /\ ret.op = "saving"
  /\ ret' = [op |-> "idle", f |-> NoFiles, k |-> 0]
  /\ UNCHANGED <<snapshots_dir, vars>>

NextSave ==
  \/ SaveStart
  \/ SaveWrite
  \/ SaveCrash

SpecSave == InitSave /\ [][NextSave]_<<vars, store_vars>>

\* two payloads to take the digest of
InitDigest ==
  /\ InitTree
  /\ ret \in {Result("payloads", NoId, "", FALSE, TRUE, "", a, b, EmptyString, EmptyString) :
                a \in Payloads, b \in Payloads}

\* compute_snapshot_hash applied to each of them
Digest ==
  /\ ret.op = "payloads"
  /\ ret' = [ret EXCEPT !.op = "digest",
                        !.digest_a = sha256_hex(canonical_json(ret.a)),
                        !.digest_b = sha256_hex(canonical_json(ret.b))]
  /\ UNCHANGED <<snapshots_dir, vars>>

NextDigest == Digest

SpecDigest == InitDigest /\ [][NextDigest]_<<vars, store_vars>>

\* ------------------------------------------- reporting under an error code
CHECK_ERROR_CODES ==
  {"OK", "DELIVERABLES_CHECK_FAILED", "NODE_COVERAGE_INCOMPLETE", "ANCHORS_INVALID",
   "IO_ERROR", "LIFECYCLE_VIOLATION", "MERGE_STATE_INVALID", "SNAPSHOT_INVALID",
   "FINGERPRINT_MISMATCH"}

Tools == {"orchestrator", "merge_pass2", "check_deliverables"}

Levels == {LEVEL_PASS, LEVEL_FAIL, LEVEL_BLOCKER}

ErrorCodesOf(tool) ==
  CASE tool = "orchestrator" -> ERROR_CODES
    [] tool = "merge_pass2" -> MERGE_ERROR_CODES
    [] OTHER -> CHECK_ERROR_CODES

\* codes a caller may report under: those of the three tools, and two message
\* prefixes that none of them lists
ReportedCodes ==
  ERROR_CODES \cup MERGE_ERROR_CODES \cup CHECK_ERROR_CODES
  \cup {"EXECUTE_AFTER_MERGE", "IMMUTABILITY_VIOLATION"}

\* the exit code a call site ends the process with after reporting at a level:
\* return EXIT_PASS / EXIT_BLOCKER / EXIT_FAIL, raise SystemExit(...)
exit_after(level) ==
  IF level = LEVEL_PASS THEN EXIT_PASS
  ELSE IF level = LEVEL_BLOCKER THEN EXIT_BLOCKER ELSE EXIT_FAIL

Reported(level, code, exit) == [level |-> level, code |-> code, exit |-> exit]

\* orchestrator.emit: an unknown code prints the BLOCKER line and returns; the
\* exit code stays with the caller
orchestrator_emit(level, code) ==
  IF code \notin ERROR_CODES
    THEN Reported(LEVEL_BLOCKER, "LIFECYCLE_VIOLATION", exit_after(level))
    ELSE Reported(level, code, exit_after(level))

\* merge_pass2.emit: an unknown code prints the BLOCKER line and raises
\* SystemExit(EXIT_BLOCKER)
merge_emit(level, code) ==
  IF code \notin MERGE_ERROR_CODES
    THEN Reported(LEVEL_BLOCKER, "LIFECYCLE_VIOLATION", EXIT_BLOCKER)
    ELSE Reported(level, code, exit_after(level))

\* check_deliverables.Reporter._add: the finding appended
Finding(level, code) == [level |-> level, code |-> code]

Reporter_add(level, code) ==
  IF code \notin CHECK_ERROR_CODES
    THEN Finding(LEVEL_BLOCKER, "LIFECYCLE_VIOLATION")
    ELSE Finding(level, code)

\* check_deliverables.Reporter.exit_code
Reporter_exit_code(findings) ==
  IF \E f \in findings : f.level = LEVEL_BLOCKER THEN EXIT_BLOCKER
  ELSE IF \E f \in findings : f.level = LEVEL_FAIL THEN EXIT_FAIL
  ELSE EXIT_PASS

\* check_deliverables.main: one finding added, r.emit(), return r.exit_code()
check_report(level, code) ==
  LET f == Reporter_add(level, code)
  IN Reported(f.level, f.code, Reporter_exit_code({f}))

ReportOf(tool, level, code) ==
  CASE tool = "orchestrator" -> orchestrator_emit(level, code)
    [] tool = "merge_pass2" -> merge_emit(level, code)
    [] OTHER -> check_report(level, code)

\* a result about to be reported by one of the tools
InitReport ==
  /\ InitTree
  /\ ret \in {[op |-> "asked", tool |-> tool, level |-> level, code |-> code,
               out |-> Reported(level, code, exit_after(level))] :
                tool \in Tools, level \in Levels, code \in ReportedCodes}

Report ==
  /\ ret.op = "asked"
  /\ ret' = [ret EXCEPT !.op = "reported", !.out = ReportOf(ret.tool, ret.level, ret.code)]
  /\ UNCHANGED <<snapshots_dir, vars>>

NextReport == Report

SpecReport == InitReport /\ [][NextReport]_<<vars, store_vars>>

\* ------------------------------------------ the reply of the external call
\* The text run_llm returns is [prefix, body, suffix]: what stands before the
\* first and after the last character of the body.
\*   prefix / suffix: "" nothing, "bom" a byte order mark or zero-width mark,
\*   "ws" whitespace, "bom_ws" marks then whitespace, "ws_bom" whitespace then
\*   marks, "text" anything else
\*   body: a JSON object (plain, carrying its own immutable_fingerprint, with
\*   immutable_architecture among its deliverables, with deliverables that are
\*   a list), two objects side by side, an object cut short, an array, prose
Margins == {"", "bom", "ws", "bom_ws", "ws_bom", "text"}

ObjectBodies ==
  {"object", "object_with_own_fingerprint", "object_with_immutable_architecture",
   "object_with_list_deliverables"}

Bodies == ObjectBodies \cup {"two_objects", "cut_short", "array", "prose"}

Text(prefix, body, suffix) == [prefix |-> prefix, body |-> body, suffix |-> suffix]

\* text.lstrip(<byte order and zero-width marks>).strip() leaves nothing before
\* the body
stripped_left(prefix) == prefix \in {"", "bom", "ws", "bom_ws"}

\* .strip() leaves nothing after the body
stripped_right(suffix) == suffix \in {"", "ws"}

\* json.loads accepts the body
body_loads(body) == body \in ObjectBodies

Parsed(raised, json) == [raised |-> raised, json |-> json]

\* the first JSON object found anywhere in the text is taken
extract_json_lenient(text) ==
  IF text.body \in ObjectBodies \cup {"two_objects"}
    THEN Parsed("", IF text.body = "two_objects" THEN "object" ELSE text.body)
    ELSE Parsed("LLM_OUTPUT_NOT_PURE_JSON", "")

extract_json_strict(text) ==
  IF ~( /\ stripped_left(text.prefix) /\ text.body \notin {"array", "prose"}
        /\ stripped_right(text.suffix) /\ text.body # "cut_short" )
    THEN Parsed("LLM_OUTPUT_NOT_PURE_JSON", "")
  ELSE IF ~body_loads(text.body)
    THEN Parsed("LLM_OUTPUT_INVALID_JSON", "")
  ELSE Parsed("", text.body)

\* the reply as cmd_execute goes on with it
ReplyOf(text) ==
  LET exec_json == extract_json_strict(text)
  IN CASE exec_json.raised # "" -> "not_json"
       [] exec_json.json = "object" -> "ok"
       [] exec_json.json = "object_with_own_fingerprint" -> "ok_with_own_fingerprint"
       [] exec_json.json = "object_with_immutable_architecture" ->
            "immutable_architecture_in_deliverables"
       [] OTHER -> "deliverables_not_a_mapping"

\* a stage directory as an earlier execute completed it
CompleteDir(immutable_fp) == [raw |-> TRUE, exec_fp |-> immutable_fp, parts |-> TRUE]

ReplyFingerprint == sha256_hex(canonicalize_json("a1"))

\* an execute past the gate: the stage directory before it, --force, and the
\* text the external call is about to return
InitReply ==
  /\ InitTree
  /\ ret \in {[op |-> "reply", text |-> Text(p, b, s), before |-> d, force |-> f,
               called |-> FALSE, passed |-> FALSE, dir |-> d] :
                p \in Margins, b \in Bodies, s \in Margins,
                d \in {EmptyDir, CompleteDir(ReplyFingerprint)}, f \in BOOLEAN}

\* cmd_execute from the existence check of out_dir to the end
ExecuteReply ==
  /\ ret.op = "reply"
  /\ ret' = IF ret.before # EmptyDir /\ ~ret.force
              THEN [ret EXCEPT !.op = "executed"]
              ELSE [ret EXCEPT !.op = "executed",
                               !.called = TRUE,
                               !.passed = LlmOk(ReplyOf(ret.text)),
                               !.dir = StageDirAfter(ReplyOf(ret.text), ReplyFingerprint)]
  /\ UNCHANGED <<snapshots_dir, vars>>

NextReply == ExecuteReply

SpecReply == InitReply /\ [][NextReply]_<<vars, store_vars>>

\* ------------------------------ commands of one run running side by side
\* Each process is a command line started on the same tree; a step is what a
\* process does between two moments at which another process may run: a block
\* of reads and checks, or one write.
Mergers == {"m1", "m2"}

\* the writes of merge() in source order
merge_writes_pointer_first(merge_id) == <<"pointer", "record">>

merge_writes(merge_id) == <<"record", "pointer">>

\* an approved snapshot of architecture arch, its core stage executed, and its
\* anchors stage too when anchors_done
ExecutedTree(arch, anchors_done) ==
  LET payload == Stamped(DecidePayload(arch), "u1")
      digest == compute_snapshot_hash(payload).digest
      sid == SnapshotId(task_json, digest)
      done == CompleteDir(fingerprint_immutable_architecture(payload))
  IN /\ snapshots = Put(<<>>, sid, payload)
     /\ sha_files = Put(<<>>, sid, digest)
     /\ approvals = {approval_file_for_hash(digest)}
     /\ outputs = IF anchors_done
                    THEN Put(Put(<<>>, <<sid, "core">>, done), <<sid, "anchors">>, done)
                    ELSE Put(<<>>, <<sid, "core">>, done)
     /\ last = Passed("execute", sid, IF anchors_done THEN "anchors" ELSE "core", FALSE, TRUE)

\* the run every process of the race is about
RaceRun == CHOOSE sid \in DOMAIN snapshots : TRUE

\* two merge command lines and one execute command line about to start; calls
\* counts the external calls from here on
InitRace ==
  /\ prompts \in [PromptKeys -> {[body |-> "v1", eol |-> "lf"]}]
  /\ task_json = "t1"
  /\ \E arch \in Archs, anchors_done \in BOOLEAN : ExecutedTree(arch, anchors_done)
  /\ runtime = RequestWritten
  /\ merge_state = <<>>
  /\ merge_ptr = <<>>
  /\ edits = 0
  /\ calls = 0
  /\ readme_ok = TRUE
  /\ snapshots_dir = <<>>
  /\ ret \in {[op |-> "race",
               merge |-> [p \in Mergers |-> [pc |-> "start", code |-> "", fp |-> NoFile]],
               exec |-> [pc |-> "start", stage |-> stage, force |-> force,
                         fp |-> NoFile],
               record_writes |-> 0,
               ready |-> <<RaceRun, "anchors">> \in DOMAIN outputs] :
                stage \in Stages, force \in BOOLEAN}

\* merge(), lines 107-233: every check up to the comparison of the fingerprints
MergeValidate(p) ==
  LET res == merge_checks(RaceRun, RaceRun)
  IN /\ ret.op = "race"
     /\ ret.merge[p].pc = "start"
     /\ ret' = [ret EXCEPT !.merge[p] =
                  IF res = MergePass
                    THEN [pc |-> "validated", code |-> "OK", fp |-> ExecFp(RaceRun, "core")]
                    ELSE [pc |-> IF res.level = LEVEL_BLOCKER THEN "blocked" ELSE "failed",
                          code |-> res.code, fp |-> NoFile]]
     /\ UNCHANGED <<snapshots_dir, vars>>

\* merge(), lines 275 and 277-278: _write_json(merge_state_path, ...) and
\* merge_ptr_path.write_text(...), one write a step; both open their file for
\* writing whether or not it exists
MergeWrite(p) ==
  LET k == IF ret.merge[p].pc = "validated" THEN 1 ELSE 2
      file == merge_writes(RaceRun)[k]
  IN /\ ret.op = "race"
     /\ ret.merge[p].pc \in {"validated", "written_1"}
     /\ IF file = "record"
          THEN /\ merge_state' = Put(merge_state, RaceRun,
                                     MergeRecord(RaceRun, RaceRun, ret.merge[p].fp))
               /\ UNCHANGED merge_ptr
          ELSE /\ merge_ptr' = Put(merge_ptr, RaceRun, RaceRun)
               /\ UNCHANGED merge_state
     /\ ret' = [ret EXCEPT !.merge[p].pc = IF k = 1 THEN "written_1" ELSE "passed",
                           !.record_writes = IF file = "record" THEN @ + 1 ELSE @]
     /\ UNCHANGED <<prompts, task_json, snapshots, sha_files, approvals, outputs, runtime,
                    last, edits, calls, readme_ok, snapshots_dir>>

\* cmd_execute, lines 438-470: the gate and the comparison of the task ids
ExecGate ==
  /\ ret.op = "race"
  /\ ret.exec.pc = "start"
  /\ ret' = [ret EXCEPT !.exec.pc =
               IF /\ preflight_execute_gate(RaceRun) = GatePass
                  /\ snapshots[RaceRun].task_id = task_json
                 THEN "gated" ELSE "refused",
                        !.exec.fp = fingerprint_immutable_architecture(snapshots[RaceRun])]
  /\ UNCHANGED <<snapshots_dir, vars>>

\* cmd_execute, lines 473-483: the existence check of out_dir, rmtree, mkdir
ExecPrepare ==
  LET out_dir == OutDir(RaceRun, ret.exec.stage)
  IN /\ ret.op = "race"
     /\ ret.exec.pc = "gated"
     /\ IF output_dir_refused(out_dir, ret.exec.force)
          THEN /\ ret' = [ret EXCEPT !.exec.pc = "refused"]
               /\ UNCHANGED outputs
          ELSE /\ ret' = [ret EXCEPT !.exec.pc = "prepared"]
               /\ outputs' = stage_dir_recreated(out_dir, EmptyDir)
     /\ UNCHANGED <<prompts, task_json, snapshots, sha_files, approvals, runtime,
                    merge_state, merge_ptr, last, edits, calls, readme_ok, snapshots_dir>>

\* cmd_execute, lines 485-531: the external call and the files written after it
ExecWrite ==
  LET out_dir == OutDir(RaceRun, ret.exec.stage)
  IN /\ ret.op = "race"
     /\ ret.exec.pc = "prepared"
     /\ \E resp \in LlmResponses :
          /\ outputs' = stage_dir_recreated(out_dir, StageDirAfter(resp, ret.exec.fp))
          /\ ret' = [ret EXCEPT !.exec.pc = IF LlmOk(resp) THEN "passed" ELSE "failed"]
     /\ calls' = calls + 1
     /\ runtime' = RequestWritten
     /\ UNCHANGED <<prompts, task_json, snapshots, sha_files, approvals,
                    merge_state, merge_ptr, last, edits, readme_ok, snapshots_dir>>

NextRace ==
  \/ \E p \in Mergers : MergeValidate(p)
  \/ \E p \in Mergers : MergeWrite(p)
  \/ ExecGate
  \/ ExecPrepare
  \/ ExecWrite

SpecRace == InitRace /\ [][NextRace]_<<vars, store_vars>>

\* --------------------------- the gate while the snapshot file is rewritten
\* preflight_execute_gate statement by statement; another process may replace
\* <id>.snapshot.json between any two of them.
NoPayload == Stamped(DecidePayload("a1"), "")

\* what another process may leave in <id>.snapshot.json: the payload with one
\* field changed, or the decision for another architecture
Rewritten(p) ==
  Tampered(p) \cup {Stamped(DecidePayload(OtherArch(p.immutable_architecture)), "u1")}

\* arch_decision = read_json(snapshot_path), line 376: the file as it is now
read_json_again(verified, on_disk) == on_disk

InitGate ==
  /\ prompts \in [PromptKeys -> {[body |-> "v1", eol |-> "lf"]}]
  /\ task_json = "t1"
  /\ \E arch \in Archs, anchors_done \in BOOLEAN : ExecutedTree(arch, anchors_done)
  /\ runtime = RequestWritten
  /\ merge_state = <<>>
  /\ merge_ptr = <<>>
  /\ edits = 0
  /\ calls = 0
  /\ readme_ok = TRUE
  /\ snapshots_dir = <<>>
  /\ ret = [op |-> "gate", pc |-> "start", verified |-> NoPayload, hash_hex |-> EmptyString,
            arch_decision |-> NoPayload, raised |-> GatePass]

GateRaise(exc) == ret' = [ret EXCEPT !.pc = "raised", !.raised = exc]

\* lines 359-361: verify_snapshot_files(snapshot_path, hash_path)
GateVerify ==
  LET arch == snapshots[RaceRun]
      v == IF read_sha256_file(RaceRun) = EmptyString
             THEN [ok |-> FALSE, msg |-> "EMPTY_SHA256_FILE"]
             ELSE verify_snapshot_content(arch, read_sha256_file(RaceRun))
  IN /\ ret.op = "gate"
     /\ ret.pc = "start"
     /\ IF v.ok
          THEN ret' = [ret EXCEPT !.pc = "verified", !.verified = arch]
          ELSE GateRaise(Raise("LifecycleViolation", "SNAPSHOT_INVALID", v.msg))
     /\ UNCHANGED <<snapshots_dir, vars>>

\* lines 363-372: hash_hex = read_sha256_file(hash_path), the approval marker
GateApproval ==
  LET hash_hex == read_sha256_file(RaceRun)
  IN /\ ret.op = "gate"
     /\ ret.pc = "verified"
     /\ IF hash_hex = EmptyString
          THEN GateRaise(Raise("LifecycleViolation", "SNAPSHOT_INVALID", "EMPTY_SHA256_FILE"))
        ELSE IF approval_file_for_hash(hash_hex) \notin approvals
          THEN GateRaise(Raise("LifecycleViolation", "LIFECYCLE_VIOLATION",
                               "SNAPSHOT_NOT_APPROVED"))
        ELSE ret' = [ret EXCEPT !.pc = "approved", !.hash_hex = hash_hex]
     /\ UNCHANGED <<snapshots_dir, vars>>

\* lines 376-387: arch_decision = read_json(snapshot_path), the stop-condition
GateReadAgain ==
  LET arch_decision == read_json_again(ret.verified, snapshots[RaceRun])
  IN /\ ret.op = "gate"
     /\ ret.pc = "approved"
     /\ IF <<TaskOrDefault(arch_decision.task_id), HashPrefix(ret.hash_hex)>>
             \in DOMAIN merge_ptr
          THEN GateRaise(Raise("LifecycleViolation", "EXECUTE_AFTER_MERGE",
                               "EXECUTE forbidden after MERGE"))
          ELSE ret' = [ret EXCEPT !.pc = "read_again", !.arch_decision = arch_decision]
     /\ UNCHANGED <<snapshots_dir, vars>>

\* lines 393-424: the fingerprint checks on arch_decision, then the return
GateFingerprints ==
  /\ ret.op = "gate"
  /\ ret.pc = "read_again"
  /\ IF ret.arch_decision.immutable_fingerprint = Absent
       THEN GateRaise(Raise("LifecycleViolation", "SNAPSHOT_IMMUTABLE_VIOLATION",
                            "immutable_fingerprint missing"))
     ELSE IF ret.arch_decision.immutable_fingerprint
               # fingerprint_immutable_architecture(ret.arch_decision)
       THEN GateRaise(Raise("LifecycleViolation", "FINGERPRINT_MISMATCH", "snapshot"))
     ELSE IF MissingPromptKeys(ret.arch_decision) # {}
       THEN GateRaise(Raise("LifecycleViolation", "SNAPSHOT_INVALID",
                            "PROMPT_FINGERPRINT_MISSING"))
     ELSE IF MismatchedPromptKeys(ret.arch_decision) # {}
       THEN GateRaise(Raise("LifecycleViolation", "FINGERPRINT_MISMATCH",
                            "prompt_fingerprints"))
     ELSE ret' = [ret EXCEPT !.pc = "returned"]
  /\ UNCHANGED <<snapshots_dir, vars>>

\* another process writes <id>.snapshot.json
RewriteSnapshot ==
  \E p \in Rewritten(snapshots[RaceRun]) :
    /\ ret.op = "gate"
    /\ edits < MaxEdits
    /\ p # snapshots[RaceRun]
    /\ snapshots' = [snapshots EXCEPT ![RaceRun] = p]
    /\ edits' = edits + 1
    /\ UNCHANGED <<prompts, task_json, sha_files, approvals, outputs, runtime,
                   merge_state, merge_ptr, last, calls, readme_ok, store_vars>>

NextGate ==
  \/ GateVerify
  \/ GateApproval
  \/ GateReadAgain
  \/ GateFingerprints
  \/ RewriteSnapshot

SpecGate == InitGate /\ [][NextGate]_<<vars, store_vars>>

\* --------------------------------------------- check_deliverables (post-check)
\* A JSON document is [kind, entries]: kind "dict" with one entry per key, kind
\* "list" with one entry per row, or kind "null". An entry holds the key (""
\* for a list row), the "node_id" string of its value when the value is an
\* object that has one ("" otherwise), and, when the value is a list, the
\* "node_id" strings of its object rows.
NoNodeId == ""

NodeIds == {"node_1", "n2"}

UnknownNodeId == "n3"

\* k.startswith("node_")
startswith_node(k) == k \in {"node_1"}

Entry(key, node_id, rows) == [key |-> key, node_id |-> node_id, rows |-> rows]

Doc(kind, entries) == [kind |-> kind, entries |-> entries]

JsonNull == Doc("null", {})

\* the covered ids read off the keys of the mapping alone
extract_ids_from_keys(obj) ==
  IF obj.kind = "dict" THEN {e.key : e \in obj.entries} ELSE {}

extract_ids(obj) ==
  IF obj.kind = "dict"
    THEN {e.key : e \in {x \in obj.entries : startswith_node(x.key)}}
         \cup {e.node_id : e \in {x \in obj.entries : x.node_id # NoNodeId}}
         \cup UNION {e.rows : e \in {x \in obj.entries :
                                       x.key \in {"nodes", "items", "artifacts", "data"}}}
  ELSE IF obj.kind = "list"
    THEN {e.node_id : e \in {x \in obj.entries : x.node_id # NoNodeId}}
  ELSE {}

\* {nid: {...}}: a mapping keyed by node id whose values carry no "node_id"
KeyedById(ids) == Doc("dict", {Entry(n, NoNodeId, {}) : n \in ids})

\* {nid: {"node_id": nid, ...}}: the shape llm_cli_bridge generates
KeyedWithNodeId(ids) == Doc("dict", {Entry(n, n, {}) : n \in ids})

\* [{"node_id": nid, ...}, ...]
RowsOf(ids) == Doc("list", {Entry("", n, {}) : n \in ids})

\* {"items": [{"node_id": nid, ...}, ...]}
UnderItems(ids) == Doc("dict", {Entry("items", NoNodeId, ids)})

IdSets == {NodeIds, {"node_1"}, NodeIds \cup {UnknownNodeId}}

DeliverableDocs ==
  {JsonNull}
  \cup {KeyedById(s) : s \in IdSets} \cup {KeyedWithNodeId(s) : s \in IdSets}
  \cup {RowsOf(s) : s \in IdSets} \cup {UnderItems(s) : s \in IdSets}

\* the files of the coverage loop, in the order the loop reads them
CoreFiles == <<"keywords.json", "patient_questions.json", "semantic_enrichment.json">>

\* anchors.json: [kind, rows], a row being an object with its from_node_id and
\* to_node_id ("" when the key is missing), or not an object
\* a from_node_id or to_node_id that is itself a JSON list or object: a value
\* Python cannot hash
Unhashable == "[]"

Row(is_object, from, to) == [is_object |-> is_object, from |-> from, to |-> to]

Anchors(kind, rows) == [kind |-> kind, rows |-> rows]

AnchorDocs ==
  {Anchors("null", <<>>),
   Anchors("dict", <<>>),
   Anchors("list", <<>>),
   Anchors("list", <<Row(TRUE, "node_1", "n2")>>),
   Anchors("list", <<Row(TRUE, "node_1", "n2"), Row(TRUE, "node_1", UnknownNodeId)>>),
   Anchors("list", <<Row(FALSE, "", ""), Row(TRUE, "", "node_1"), Row(TRUE, "n2", "node_1")>>),
   Anchors("list", <<Row(TRUE, UnknownNodeId, Unhashable)>>),
   Anchors("list", <<Row(TRUE, "node_1", "n2"), Row(TRUE, "node_1", Unhashable)>>)}

\* `fr not in expected or to not in expected` on a row: the membership test of
\* an unhashable value raises TypeError; `or` leaves `to` alone once `fr` is
\* outside
raises_type_error(row, expected) ==
  /\ row.is_object
  /\ \/ row.from = Unhashable
     \/ row.from \in expected /\ row.to = Unhashable

bad_rows(anchors_obj, expected) ==
  Cardinality({i \in DOMAIN anchors_obj.rows :
                 \/ ~anchors_obj.rows[i].is_object
                 \/ anchors_obj.rows[i].from \notin expected
                 \/ anchors_obj.rows[i].to \notin expected})

\* immutable_architecture.node_registry of the snapshot canonical: kind "dict"
\* (ids are the keys), "list" (ids are the rows' node_id), or the file is
\* "missing", "not_object", or has "no_registry"
Registry(kind, ids) == [kind |-> kind, ids |-> ids]

\* the first core file whose check fails, 0 if none does
FirstFailing(docs, expected) ==
  IF \A i \in DOMAIN CoreFiles : docs[i] # JsonNull /\ extract_ids(docs[i]) = expected
    THEN 0
    ELSE CHOOSE i \in DOMAIN CoreFiles :
           /\ docs[i] = JsonNull \/ extract_ids(docs[i]) # expected
           /\ \A j \in 1..(i - 1) : docs[j] # JsonNull /\ extract_ids(docs[j]) = expected

Checked(findings, validated, bad) ==
  [findings |-> findings,
   exit |-> Reporter_exit_code({findings[i] : i \in DOMAIN findings}),
   validated |-> validated,
   bad_rows |-> bad]

\* an exception nothing catches: the interpreter prints the traceback and ends
\* with status 1, no finding emitted
Uncaught == [findings |-> <<>>, exit |-> 1, validated |-> TRUE, bad_rows |-> 0]

Blocked(code) == Checked(<<Reporter_add(LEVEL_BLOCKER, code)>>, FALSE, 0)

CheckFailed(code, bad) == Checked(<<Reporter_add(LEVEL_FAIL, code)>>, TRUE, bad)

\* check_deliverables.main on a tree t: readme (the drift guard passes),
\* merge_id (NoId when no argument is given), record (state/merges/<merge_id>.json:
\* "missing", "not_object", "no_snapshot_canonical", "no_artifacts" or "ok"),
\* snapshot (the registry of the snapshot canonical the record points to),
\* present (the four artifact files exist), docs, anchors, final
\* (final_artifacts.json: "absent", "invalid" or "ok")
post_check(t) ==
  LET expected == t.snapshot.ids
      failing == FirstFailing(t.docs, expected)
  IN
  IF ~t.readme THEN Blocked("FINGERPRINT_MISMATCH")
  ELSE IF t.merge_id = NoId THEN Blocked("LIFECYCLE_VIOLATION")
  ELSE IF t.record = "missing"
    THEN Checked(<<Reporter_add(LEVEL_BLOCKER, "MERGE_STATE_INVALID"),
                   Reporter_add(LEVEL_BLOCKER, "LIFECYCLE_VIOLATION")>>, FALSE, 0)
  ELSE IF t.record \in {"not_object", "no_snapshot_canonical"}
    THEN Blocked("MERGE_STATE_INVALID")
  ELSE IF t.snapshot.kind = "missing" THEN Blocked("SNAPSHOT_INVALID")
  ELSE IF t.snapshot.kind \in {"not_object", "no_registry"}
    THEN Blocked("MERGE_STATE_INVALID")
  ELSE IF t.record = "no_artifacts" THEN Blocked("MERGE_STATE_INVALID")
  ELSE IF ~t.present THEN CheckFailed("DELIVERABLES_CHECK_FAILED", 0)
  ELSE IF failing # 0
    THEN IF t.docs[failing] = JsonNull
           THEN CheckFailed("DELIVERABLES_CHECK_FAILED", 0)
           ELSE CheckFailed("NODE_COVERAGE_INCOMPLETE", 0)
  ELSE IF t.anchors.kind = "null" THEN CheckFailed("DELIVERABLES_CHECK_FAILED", 0)
  ELSE IF t.anchors.kind # "list" THEN CheckFailed("ANCHORS_INVALID", 0)
  ELSE IF \E i \in DOMAIN t.anchors.rows : raises_type_error(t.anchors.rows[i], expected)
    THEN Uncaught
  ELSE IF bad_rows(t.anchors, expected) > 0
    THEN CheckFailed("ANCHORS_INVALID", bad_rows(t.anchors, expected))
  ELSE IF t.final = "invalid" THEN CheckFailed("DELIVERABLES_CHECK_FAILED", 0)
  ELSE Checked(<<Reporter_add(LEVEL_PASS, "OK")>>, TRUE, 0)

\* ------------------------------------------ post-check along the lifecycle
\* the node ids of the registry an architecture pins
NodeRegistryOf(arch) == IF arch = "a1" THEN NodeIds ELSE {"node_1"}

\* the Merge Record looked up under the run directory when state/merges has none
load_merge_state_or_run(merge_id) ==
  IF merge_id \in DOMAIN merge_state \/ BaseDirExists(merge_id) THEN "ok" ELSE "missing"

\* load_json(Path("state/merges") / f"{merge_id}.json")
load_merge_state(merge_id) ==
  IF merge_id \in DOMAIN merge_state THEN "ok" ELSE "missing"

\* what check_deliverables finds on disk for merge_id, the stage files holding
\* docs and anchors
TreeOf(merge_id, docs, anchors) ==
  LET sid == IF merge_id \in DOMAIN merge_state
               THEN merge_state[merge_id].core_snapshot_id ELSE merge_id
  IN [readme |-> enforce_readme_fingerprint_or_blocker,
      merge_id |-> merge_id,
      record |-> load_merge_state(merge_id),
      snapshot |-> IF sid \in DOMAIN snapshots
                     THEN Registry("dict", NodeRegistryOf(snapshots[sid].immutable_architecture))
                     ELSE Registry("missing", {}),
      present |-> /\ <<sid, "core">> \in DOMAIN outputs
                  /\ <<sid, "anchors">> \in DOMAIN outputs
                  /\ outputs[<<sid, "core">>].parts
                  /\ outputs[<<sid, "anchors">>].parts,
      docs |-> docs,
      anchors |-> anchors,
      final |-> "absent"]

\* deliverables as the stages may have written them: every node of a registry
\* covered, or one node short
StageDocs == {KeyedWithNodeId(NodeIds), KeyedWithNodeId({"node_1"})}

StageAnchors ==
  {Anchors("list", <<Row(TRUE, "node_1", "node_1")>>),
   Anchors("list", <<Row(TRUE, "node_1", UnknownNodeId)>>)}

\* the argument of the command line: none, a task id, a snapshot or run id
PostCheckArgs ==
  {NoId} \cup {<<t>> : t \in TaskIds} \cup DOMAIN snapshots \cup RunIds

\* check_deliverables writes no file: the commands that follow a post-check are
\* those of a history without it, so every history here ends with its post-check
PostCheck ==
  \E merge_id \in PostCheckArgs, docs \in [DOMAIN CoreFiles -> StageDocs],
     anchors \in StageAnchors :
    /\ ret.op = "none"
    /\ ret' = [op |-> "post_check",
               tree |-> TreeOf(merge_id, docs, anchors),
               out |-> post_check(TreeOf(merge_id, docs, anchors))]
    /\ UNCHANGED <<snapshots_dir, vars>>

NextPostCheck ==
  \/ ret.op = "none" /\ Decide
  \/ ret.op = "none" /\ Approve
  \/ ret.op = "none" /\ Execute
  \/ ret.op = "none" /\ Merge
  \/ ret.op = "none" /\ EditReadme
  \/ PostCheck

SpecPostCheck == Init /\ [][NextPostCheck]_<<vars, store_vars>>

\* -------------------------------------- post-check applied to a merged run
\* the id of a run that has been merged
MergedRunId == <<"t1", HashPrefix(sha256_hex(canonicalize_json("a1")))>>

\* trees whose Merge Record and snapshot canonical resolve: the registry as a
\* mapping or as a list of nodes, deliverables and anchors of every shape
MergedTrees ==
  {[readme |-> TRUE,
    merge_id |-> MergedRunId,
    record |-> "ok",
    snapshot |-> Registry(kind, NodeIds),
    present |-> present,
    docs |-> docs,
    anchors |-> anchors,
    final |-> final] :
     kind \in {"dict", "list"}, present \in BOOLEAN,
     docs \in [DOMAIN CoreFiles -> DeliverableDocs], anchors \in AnchorDocs,
     final \in {"absent", "invalid"}}

InitCheck ==
  /\ InitTree
  /\ ret \in {[op |-> "tree", tree |-> t, out |-> Checked(<<>>, FALSE, 0)] : t \in MergedTrees}

Check ==
  /\ ret.op = "tree"
  /\ ret' = [ret EXCEPT !.op = "checked", !.out = post_check(ret.tree)]
  /\ UNCHANGED <<snapshots_dir, vars>>

NextCheck == Check

SpecCheck == InitCheck /\ [][NextCheck]_<<vars, store_vars>>

\* ======================================================================
\* Properties
\* ======================================================================
\* The five pre-flight conditions, stated on the file tree itself.
OnDisk(sid) == sid \in DOMAIN snapshots /\ sid \in DOMAIN sha_files

StoredDigest(sid) == sha_files[sid]

OwnDigest(sid) == sha256_hex(canonicalize_json(snapshots[sid]))

DigestBroken(sid) == StoredDigest(sid) = EmptyString \/ OwnDigest(sid) # StoredDigest(sid)

PointerExists(sid) ==
  <<TaskOrDefault(snapshots[sid].task_id), HashPrefix(StoredDigest(sid))>> \in DOMAIN merge_ptr

RecordExists(sid) ==
  <<TaskOrDefault(snapshots[sid].task_id), HashPrefix(StoredDigest(sid))>> \in DOMAIN merge_state

ApprovalMissing(sid) == StoredDigest(sid) \notin approvals

ArchitectureBroken(sid) ==
  \/ snapshots[sid].immutable_fingerprint = Absent
  \/ snapshots[sid].immutable_fingerprint #
       sha256_hex(canonicalize_json(snapshots[sid].immutable_architecture))

PromptKeyMissing(sid) == \E k \in PromptKeys : snapshots[sid].prompts_fingerprint[k] = Absent

PromptKeyStale(sid) ==
  \E k \in PromptKeys :
    /\ snapshots[sid].prompts_fingerprint[k] # Absent
    /\ snapshots[sid].prompts_fingerprint[k] # sha256_hex(prompts[k].body)

AnyCheckFails(sid) ==
  \/ ~readme_ok
  \/ ~OnDisk(sid)
  \/ DigestBroken(sid)
  \/ PointerExists(sid)
  \/ ApprovalMissing(sid)
  \/ ArchitectureBroken(sid)
  \/ PromptKeyMissing(sid)
  \/ PromptKeyStale(sid)

Refused(o) == o.exit = EXIT_BLOCKER /\ o.level = LEVEL_BLOCKER /\ ~o.llm

\* C1: once the merge pointer of a snapshot's run exists it stays, and every
\* execute against that snapshot (either stage, with or without --force) ends
\* with exit code 2 (BLOCKER), makes no external call and leaves the outputs
\* tree and the request file as they were.
C1_ExecuteAfterMergeRefused ==
  [][/\ DOMAIN merge_ptr \subseteq DOMAIN merge_ptr'
     /\ (last'.op = "execute" /\ OnDisk(last'.id) /\ PointerExists(last'.id))
          => (Refused(last') /\ outputs' = outputs /\ runtime' = runtime)]_vars

C1_Witness ==
  /\ last.op = "execute"
  /\ last.force
  /\ OnDisk(last.id)
  /\ PointerExists(last.id)
  /\ last.prefix = "EXECUTE_AFTER_MERGE"
  /\ last.exit = EXIT_BLOCKER

\* C2: an execute against a snapshot whose stored digest has no approval marker
\* is refused as a BLOCKER (exit code 2), and whenever a stage has been handed to
\* the external call the digest of the snapshot's payload has an approval marker.
C2_NoExecuteBeforeApprove ==
  last.op = "execute" /\ OnDisk(last.id) =>
    /\ ApprovalMissing(last.id) => Refused(last)
    /\ last.llm => (StoredDigest(last.id) \in approvals /\ OwnDigest(last.id) \in approvals)

C2_Witness ==
  /\ last.op = "execute"
  /\ OnDisk(last.id)
  /\ ~DigestBroken(last.id)
  /\ ApprovalMissing(last.id)
  /\ last.detail = "SNAPSHOT_NOT_APPROVED"
  /\ last.exit = EXIT_BLOCKER

\* C3: an execute for which any pre-flight condition fails ends without the
\* external call and leaves every file as it was (snapshots, approvals, outputs,
\* request file, merge state); so the external call is made only when all five
\* conditions held at that invocation.
C3_FailedGateLeavesNoTrace ==
  [][(last'.op = "execute" /\ AnyCheckFails(last'.id))
       => (fs' = fs /\ ~last'.llm /\ last'.exit # EXIT_PASS)]_vars

C3_Witness ==
  /\ last.op = "execute"
  /\ OnDisk(last.id)
  /\ ~DigestBroken(last.id)
  /\ ~ApprovalMissing(last.id)
  /\ ~PointerExists(last.id)
  /\ ~ArchitectureBroken(last.id)
  /\ PromptKeyStale(last.id)
  /\ last.detail = "prompt_fingerprints"
  /\ last.exit = EXIT_BLOCKER
  /\ DOMAIN outputs # {}

\* The check that the gate reports, read off the message of the last execute.
ReportedCheck(o) ==
  CASE o.prefix = "SNAPSHOT_INVALID" /\ o.detail \in {"HASH_MISMATCH", "EMPTY_SHA256_FILE"} -> "digest"
    [] o.prefix = "EXECUTE_AFTER_MERGE" -> "merge"
    [] o.detail = "SNAPSHOT_NOT_APPROVED" -> "approval"
    [] o.prefix = "SNAPSHOT_IMMUTABLE_VIOLATION" -> "architecture"
    [] o.prefix = "FINGERPRINT_MISMATCH" /\ o.detail = "snapshot" -> "architecture"
    [] o.detail \in {"PROMPT_FINGERPRINT_MISSING", "prompt_fingerprints"} -> "prompts"
    [] OTHER -> "none"

\* the first failing check when approval is looked at before the merge pointer
FirstFailingApprovalFirst(sid) ==
  IF DigestBroken(sid) THEN "digest"
  ELSE IF ApprovalMissing(sid) THEN "approval"
  ELSE IF PointerExists(sid) THEN "merge"
  ELSE IF ArchitectureBroken(sid) THEN "architecture"
  ELSE IF PromptKeyMissing(sid) \/ PromptKeyStale(sid) THEN "prompts"
  ELSE "none"

\* the first failing check in the documented order 1..5
FirstFailingDocumented(sid) ==
  IF DigestBroken(sid) THEN "digest"
  ELSE IF PointerExists(sid) THEN "merge"
  ELSE IF ApprovalMissing(sid) THEN "approval"
  ELSE IF ArchitectureBroken(sid) THEN "architecture"
  ELSE IF PromptKeyMissing(sid) \/ PromptKeyStale(sid) THEN "prompts"
  ELSE "none"

\* C4 as stated: once main's README guard has let the command through, the gate
\* reports the first failing check in the documented order (digest, merge
\* pointer, approval, architecture digest, prompts); with a merge pointer and no
\* approval marker it reports forbidden-after-merge.
C4_DocumentedOrder ==
  last.op = "execute" /\ readme_ok /\ OnDisk(last.id) /\ AnyCheckFails(last.id) =>
    ReportedCheck(last) = FirstFailingDocumented(last.id)

\* C4 amended: once main's README guard has let the command through, the gate
\* reports the first failing check in the order digest, approval marker, merge
\* pointer, architecture digest, prompts; with a valid digest, a merge pointer
\* and no approval marker it reports the missing approval.
C4_GateOrder ==
  last.op = "execute" /\ readme_ok /\ OnDisk(last.id) /\ AnyCheckFails(last.id) =>
    /\ ReportedCheck(last) = FirstFailingApprovalFirst(last.id)
    /\ (~DigestBroken(last.id) /\ PointerExists(last.id) /\ ApprovalMissing(last.id))
         => (last.detail = "SNAPSHOT_NOT_APPROVED" /\ last.code = "LIFECYCLE_VIOLATION")

C4_Witness ==
  /\ last.op = "execute"
  /\ OnDisk(last.id)
  /\ ~DigestBroken(last.id)
  /\ PointerExists(last.id)
  /\ ApprovalMissing(last.id)
  /\ last.detail = "SNAPSHOT_NOT_APPROVED"

\* C5: for a snapshot whose digest verifies and that has no approval marker,
\* execute is refused, and the gate (reached when main's README guard passes)
\* reports SNAPSHOT_NOT_APPROVED under the code LIFECYCLE_VIOLATION, whatever
\* the state of the immutable_fingerprint and of the prompt fingerprints; the
\* report names that one failure.
C5_ApprovalReportedFirst ==
  last.op = "execute" /\ OnDisk(last.id) /\ ~DigestBroken(last.id) /\ ApprovalMissing(last.id) =>
    /\ Refused(last)
    /\ readme_ok => /\ last.prefix = "LIFECYCLE_VIOLATION"
                     /\ last.detail = "SNAPSHOT_NOT_APPROVED"
                     /\ last.code = "LIFECYCLE_VIOLATION"

C5_Witness ==
  /\ last.op = "execute"
  /\ OnDisk(last.id)
  /\ ~DigestBroken(last.id)
  /\ ApprovalMissing(last.id)
  /\ ArchitectureBroken(last.id)
  /\ last.detail = "SNAPSHOT_NOT_APPROVED"

\* C6: when the payload in <id>.snapshot.json no longer has the digest stored in
\* <id>.sha256, every execute on it is refused with SNAPSHOT_INVALID (exit code
\* 2; the code is the one the gate gives when main's README guard lets the command
\* reach it), also when the stored digest is approved; a payload is handed to the
\* external call only if its own digest has an approval marker.
C6_TamperedSnapshotRefused ==
  last.op = "execute" /\ OnDisk(last.id) =>
    /\ (StoredDigest(last.id) # EmptyString /\ OwnDigest(last.id) # StoredDigest(last.id))
         => /\ Refused(last)
            /\ readme_ok => (last.code = "SNAPSHOT_INVALID" /\ last.detail = "HASH_MISMATCH")
    /\ last.llm => OwnDigest(last.id) \in approvals

C6_Witness ==
  /\ last.op = "execute"
  /\ OnDisk(last.id)
  /\ OwnDigest(last.id) # StoredDigest(last.id)
  /\ StoredDigest(last.id) \in approvals
  /\ last.code = "SNAPSHOT_INVALID"
  /\ last.exit = EXIT_BLOCKER

\* C7: execute is refused as a BLOCKER whenever the recorded
\* immutable_fingerprint is absent or wrong, or a prompt fingerprint is missing
\* or stale; with main's README guard and the earlier checks passed, a missing key is reported as
\* SNAPSHOT_INVALID: PROMPT_FINGERPRINT_MISSING, also when another key is stale,
\* and a stale value alone as FINGERPRINT_MISMATCH.
EarlierChecksPass(sid) ==
  readme_ok /\ ~DigestBroken(sid) /\ ~ApprovalMissing(sid) /\ ~PointerExists(sid) /\ ~ArchitectureBroken(sid)

C7_FingerprintFailures ==
  last.op = "execute" /\ OnDisk(last.id) =>
    /\ (ArchitectureBroken(last.id) \/ PromptKeyMissing(last.id) \/ PromptKeyStale(last.id))
         => Refused(last)
    /\ (EarlierChecksPass(last.id) /\ PromptKeyMissing(last.id))
         => (last.code = "SNAPSHOT_INVALID" /\ last.detail = "PROMPT_FINGERPRINT_MISSING")
    /\ (EarlierChecksPass(last.id) /\ ~PromptKeyMissing(last.id) /\ PromptKeyStale(last.id))
         => (last.code = "FINGERPRINT_MISMATCH" /\ last.detail = "prompt_fingerprints")

C7_Witness ==
  /\ last.op = "execute"
  /\ OnDisk(last.id)
  /\ EarlierChecksPass(last.id)
  /\ PromptKeyMissing(last.id)
  /\ PromptKeyStale(last.id)
  /\ last.detail = "PROMPT_FINGERPRINT_MISSING"

\* C8: a merge invoked for a run whose Merge Record or pointer already exists
\* fails with MERGE_STATE_EXISTS (BLOCKER, exit code 2) and leaves the record and
\* the pointer as the first call wrote them; no step of any operation changes
\* or removes a Merge Record that exists.
C8_MergeOnce ==
  [][/\ \A m \in DOMAIN merge_state :
          m \in DOMAIN merge_state' /\ merge_state'[m] = merge_state[m]
     /\ (/\ last'.op = "merge"
         /\ last'.id = last'.id2
         /\ (last'.id \in DOMAIN merge_state \/ last'.id \in DOMAIN merge_ptr))
          => /\ last'.code = "MERGE_STATE_EXISTS"
             /\ last'.level = LEVEL_BLOCKER
             /\ last'.exit = EXIT_BLOCKER
             /\ merge_state' = merge_state
             /\ merge_ptr' = merge_ptr]_vars

C8_Witness ==
  /\ last.op = "merge"
  /\ last.id = last.id2
  /\ last.code = "MERGE_STATE_EXISTS"
  /\ last.exit = EXIT_BLOCKER
  /\ last.id \in DOMAIN merge_state
  /\ PointerExists(last.id)

\* C9 as stated: in every state in which the Merge Record of a snapshot's run
\* exists, with or without the by_run pointer, execute against that snapshot
\* is refused.
C9_RecordAloneDisablesExecute ==
  last.op = "execute" /\ OnDisk(last.id) /\ RecordExists(last.id) => Refused(last)

\* an immutable_fingerprint that is there and is not the empty string
Carries(fp) == fp # Absent /\ fp # EmptyString

\* C10: merge succeeds only if both execution_result.json files carry a
\* non-empty immutable_fingerprint and the two are equal, and the Merge Record
\* then carries that value; an absent or empty value is reported as
\* SNAPSHOT_IMMUTABLE_VIOLATION and unequal values as MERGE_FINGERPRINT_MISMATCH,
\* both as BLOCKER with exit code 2.
C10_MergeFingerprints ==
  last.op = "merge" =>
    /\ last.exit = EXIT_PASS =>
         /\ Carries(ExecFp(last.id, "core"))
         /\ Carries(ExecFp(last.id2, "anchors"))
         /\ ExecFp(last.id, "core") = ExecFp(last.id2, "anchors")
         /\ last.id \in DOMAIN merge_state
         /\ merge_state[last.id].immutable_fingerprint = ExecFp(last.id, "core")
    /\ last.code = "SNAPSHOT_IMMUTABLE_VIOLATION" =>
         /\ last.exit = EXIT_BLOCKER /\ last.level = LEVEL_BLOCKER
         /\ ~Carries(ExecFp(last.id, "core")) \/ ~Carries(ExecFp(last.id2, "anchors"))
    /\ last.code = "MERGE_FINGERPRINT_MISMATCH" =>
         /\ last.exit = EXIT_BLOCKER /\ last.level = LEVEL_BLOCKER
         /\ Carries(ExecFp(last.id, "core"))
         /\ Carries(ExecFp(last.id2, "anchors"))
         /\ ExecFp(last.id, "core") # ExecFp(last.id2, "anchors")

C10_Witness ==
  /\ last.op = "merge"
  /\ last.exit = EXIT_PASS
  /\ last.id \in DOMAIN merge_state
  /\ last.id \in DOMAIN snapshots
  /\ merge_state[last.id].immutable_fingerprint
       = fingerprint_immutable_architecture(snapshots[last.id])

\* C11: a merge given an identifier that is not <task_id>__<digest_prefix>, or
\* two identifiers that differ in the task id or in the digest prefix, ends as an
\* ordinary failure (FAIL, exit code 1): INVALID_ARGUMENT resp. TASK_ID_MISMATCH
\* once both run directories exist; and every Merge Record names one run id as
\* its merge id, its core run and its anchors run.
C11_MergeRejectsBadIds ==
  /\ \A m \in DOMAIN merge_state :
       /\ WellFormedId(m)
       /\ merge_state[m].core_snapshot_id = m
       /\ merge_state[m].anchors_snapshot_id = m
  /\ (/\ last.op = "merge"
      /\ (~WellFormedId(last.id) \/ ~WellFormedId(last.id2) \/ last.id # last.id2))
       => /\ last.level = LEVEL_FAIL
          /\ last.exit = EXIT_FAIL
          /\ last.code \in {"IO_ERROR", "INVALID_ARGUMENT", "TASK_ID_MISMATCH"}
          /\ (BaseDirExists(last.id) /\ BaseDirExists(last.id2)) =>
               last.code = IF WellFormedId(last.id) /\ WellFormedId(last.id2)
                             THEN "TASK_ID_MISMATCH" ELSE "INVALID_ARGUMENT"

C11_Witness ==
  /\ last.op = "merge"
  /\ WellFormedId(last.id)
  /\ WellFormedId(last.id2)
  /\ last.id[1] = last.id2[1]
  /\ last.id[2] # last.id2[2]
  /\ <<last.id, "core">> \in DOMAIN outputs
  /\ <<last.id2, "anchors">> \in DOMAIN outputs
  /\ last.code = "TASK_ID_MISMATCH"

\* C12 as stated: every merge that fails (exit code other than 0) leaves
\* state/merges as it was: no Merge Record and no pointer file is created.
C12_FailingMergeLeavesMergesUnchanged ==
  [][(last'.op = "merge" /\ last'.exit # EXIT_PASS)
       => (merge_state' = merge_state /\ merge_ptr' = merge_ptr)]_vars

\* C13 as stated: once infer_snapshot_state has returned MERGED for a snapshot id
\* it returns MERGED after every later change of the tree (none of the steps
\* here deletes anything under state/), a change of input/task.json included.
C13_MergedStaysMerged ==
  [][\A sid \in DOMAIN snapshots :
       infer_snapshot_state(sid) = "MERGED" => infer_snapshot_state(sid)' = "MERGED"]_vars

\* C14 as stated: whenever the snapshot file exists and the pointer file exists
\* for the merge id made of the snapshot's task id and digest prefix,
\* infer_snapshot_state returns MERGED, whatever input/task.json, the approval
\* markers and the stage directories are.
C14_PointerMeansMerged ==
  \A sid \in DOMAIN snapshots :
    (OnDisk(sid) /\ PointerExists(sid)) => infer_snapshot_state(sid) = "MERGED"

\* ---------------------------------------------------- append-only steps
\* g has every file of f, with the content it has in f
Extends(f, g) == DOMAIN f \subseteq DOMAIN g /\ \A k \in DOMAIN f : g[k] = f[k]

\* the stage directory e has every file of the stage directory d, unchanged
DirExtends(d, e) ==
  /\ d.raw => e.raw
  /\ d.parts => e.parts
  /\ d.exec_fp # NoFile => e.exec_fp = d.exec_fp

\* a step that only adds files and directories under input/, prompts/, state/
\* snapshots, approvals, merges and outputs/: nothing is deleted or rewritten
\* (runtime is the request file that every external call writes anew; no
\* classification reads it)
AppendOnlyStep ==
  /\ prompts' = prompts
  /\ task_json' = task_json
  /\ readme_ok' = readme_ok
  /\ Extends(snapshots, snapshots')
  /\ Extends(sha_files, sha_files')
  /\ approvals \subseteq approvals'
  /\ DOMAIN outputs \subseteq DOMAIN outputs'
  /\ \A k \in DOMAIN outputs : DirExtends(outputs[k], outputs'[k])
  /\ Extends(merge_state, merge_state')
  /\ Extends(merge_ptr, merge_ptr')

\* NO_SNAPSHOT < SNAPSHOT_PRESENT < APPROVED < {EXECUTED_CORE, EXECUTED_ANCHORS}
\* < EXECUTED_BOTH < MERGED
Phases ==
  {"NO_SNAPSHOT", "SNAPSHOT_PRESENT", "APPROVED", "EXECUTED_CORE", "EXECUTED_ANCHORS",
   "EXECUTED_BOTH", "MERGED"}

PhaseRank ==
  [phase \in Phases |->
     CASE phase = "NO_SNAPSHOT" -> 0
       [] phase = "SNAPSHOT_PRESENT" -> 1
       [] phase = "APPROVED" -> 2
       [] phase \in {"EXECUTED_CORE", "EXECUTED_ANCHORS"} -> 3
       [] phase = "EXECUTED_BOTH" -> 4
       [] phase = "MERGED" -> 5]

\* C15: over a step that only adds files and directories, the phase that
\* infer_snapshot_state returns for a snapshot id never moves backward in
\* NO_SNAPSHOT < SNAPSHOT_PRESENT < APPROVED < {EXECUTED_CORE, EXECUTED_ANCHORS}
\* < EXECUTED_BOTH < MERGED.
C15_MonotoneUnderAppendOnly ==
  [][AppendOnlyStep =>
       \A sid \in DOMAIN snapshots' :
         PhaseRank[infer_snapshot_state(sid)'] >= PhaseRank[infer_snapshot_state(sid)]]_vars

\* an approval marker added after a stage directory: the phase stays EXECUTED_CORE
C15_Witness ==
  /\ last.op = "approve"
  /\ last.exit = EXIT_PASS
  /\ last.id \in DOMAIN snapshots
  /\ LifecycleFacts(last.id).approved
  /\ infer_snapshot_state(last.id) = "EXECUTED_CORE"


\* the documented state machine: one arrow of NO_SNAPSHOT -> SNAPSHOT_PRESENT ->
\* APPROVED -> {EXECUTED_CORE, EXECUTED_ANCHORS} -> EXECUTED_BOTH -> MERGED
ChainStep(p, q) ==
  \/ p = "NO_SNAPSHOT" /\ q = "SNAPSHOT_PRESENT"
  \/ p = "SNAPSHOT_PRESENT" /\ q = "APPROVED"
  \/ p = "APPROVED" /\ q \in {"EXECUTED_CORE", "EXECUTED_ANCHORS"}
  \/ p \in {"EXECUTED_CORE", "EXECUTED_ANCHORS"} /\ q = "EXECUTED_BOTH"
  \/ p = "EXECUTED_BOTH" /\ q = "MERGED"

\* the tree was written by decide, approve, execute and merge alone (the
\* post-check, check_deliverables.py, writes no file)
SystemOperationsOnly == edits = 0

\* C16: while only decide, approve, execute (with or without --force) and merge
\* have written the tree, each command leaves the phase of every snapshot where
\* it was or moves it one arrow along NO_SNAPSHOT -> SNAPSHOT_PRESENT -> APPROVED
\* -> {EXECUTED_CORE, EXECUTED_ANCHORS} -> EXECUTED_BOTH -> MERGED: never back,
\* never to EXECUTED_* but from APPROVED, never to MERGED but from EXECUTED_BOTH.
C16_PhaseFollowsChain ==
  [][SystemOperationsOnly' =>
       \A sid \in DOMAIN snapshots' :
         \/ infer_snapshot_state(sid)' = infer_snapshot_state(sid)
         \/ ChainStep(infer_snapshot_state(sid), infer_snapshot_state(sid)')]_vars

C16_Witness ==
  /\ SystemOperationsOnly
  /\ last.op = "merge"
  /\ last.exit = EXIT_PASS
  /\ infer_snapshot_state(last.id) = "MERGED"


\* ------------------------------------------------- the snapshot store
\* the snapshot has its creation time from the save, not from the caller
StampedBySave(arch_decision_json) ==
  ~(HasKey(arch_decision_json[2], "meta")
    /\ HasKey(Lookup(arch_decision_json[2], "meta")[2], "created_utc"))

\* C17: right after save_snapshot(P, dir, t), verify_snapshot_files on the
\* snapshot file and the digest file it wrote returns ok, and the snapshot id
\* is t, "__" and the first 12 hex characters of the digest in the .sha256 file.
C17_SaveThenVerify ==
  ret.op = "save" =>
    /\ ret.id \in DOMAIN snapshots_dir
    /\ verify_snapshot_texts(snapshots_dir[ret.id].snapshot_json,
                             snapshots_dir[ret.id].sha256)
         = [ok |-> TRUE, msg |-> "OK"]
    /\ ret.id = <<ret.task_id, HashPrefix(first_nonblank_line(snapshots_dir[ret.id].sha256))>>

C17_Witness ==
  /\ ret.op = "save"
  /\ StampedBySave(ret.a)
  /\ Len(ret.a[2]) = 2
  /\ verify_snapshot_texts(snapshots_dir[ret.id].snapshot_json,
                           snapshots_dir[ret.id].sha256).ok

\* C18 as stated: once the saved <id>.canonical.json has been changed, verify of
\* that snapshot fails with a digest mismatch.
C18_CanonicalTamperDetected ==
  (ret.op = "verify" /\ ~CanonicalIntact(ret.id)) =>
    (~ret.ok /\ ret.msg = "HASH_MISMATCH")

\* the same document up to the order of its keys (dict equality)
RECURSIVE AsMapping(_)
AsMapping(obj) ==
  IF obj[1] = "str" THEN obj
  ELSE <<"obj", {<<obj[2][i][1], AsMapping(obj[2][i][2])>> : i \in 1..Len(obj[2])}>>

SameMapping(a, b) == AsMapping(a) = AsMapping(b)

\* the three files of id are as a save left them
AsSaved(id) ==
  /\ CanonicalIntact(id)
  /\ verify_snapshot_texts(snapshots_dir[id].snapshot_json, snapshots_dir[id].sha256).ok

C20_DigestStable ==
  ret.op = "digest" =>
    /\ ret.digest_a = sha256_hex(canonical_json(ret.a))
    /\ SameMapping(ret.a, ret.b) <=> ret.digest_a = ret.digest_b

\* two payloads with the same keys and values in a different order
C20_Witness ==
  /\ ret.op = "digest"
  /\ ret.a # ret.b
  /\ SameMapping(ret.a, ret.b)
  /\ Len(ret.a[2]) = 2
  /\ ret.digest_a = ret.digest_b

\* C21: approve of a snapshot whose approval marker exists ends with exit code 0
\* and leaves the marker and every other file as they were, so that repeated
\* approvals give the state that one gives.
C21_ApproveIdempotent ==
  [][(/\ last'.op = "approve"
      /\ enforce_readme_fingerprint_or_blocker
      /\ last'.id \in DOMAIN sha_files
      /\ approval_file_for_hash(read_sha256_file(last'.id)) \in approvals)
       => (last'.exit = EXIT_PASS /\ last'.level = LEVEL_PASS /\ fs' = fs)]_vars

\* a second approve of an approved snapshot
C21_Witness ==
  /\ last.op = "approve"
  /\ last.exit = EXIT_PASS
  /\ last.detail = "approval already exists (idempotent)"
  /\ approval_file_for_hash(read_sha256_file(last.id)) \in approvals


\* ------------------------------------- one payload saved under several ids
MaxCopies == 3

\* save_snapshot called directly, with a task id of the caller's choice
SaveSnapshotAs ==
  \E arch \in Archs, task_id \in TaskIds, now \in Stamps :
    /\ \/ SnapshotId(task_id, compute_snapshot_hash(Stamped(DecidePayload(arch), now)).digest)
            \in DOMAIN snapshots
       \/ Cardinality(DOMAIN snapshots) < MaxCopies
    /\ save_snapshot(DecidePayload(arch), task_id, now)
    /\ last' = EnvOutcome("save")
    /\ UNCHANGED <<prompts, task_json, approvals, outputs, runtime, merge_state, merge_ptr,
                   edits, calls, readme_ok, store_vars>>

NextApproval ==
  \/ SaveSnapshotAs
  \/ Approve

SpecApproval == Init /\ [][NextApproval]_vars

\* the gate refuses sid because its approval marker is missing
RefusedForApproval(sid) ==
  preflight_execute_gate(sid)
    = Raise("LifecycleViolation", "LIFECYCLE_VIOLATION", "SNAPSHOT_NOT_APPROVED")

\* C22: a passing approve of one snapshot id lifts the approval check of the
\* gate for every snapshot id whose .sha256 file holds the same digest, and
\* changes it for no snapshot id whose .sha256 file holds another digest.
C22_ApprovalKeyedByDigest ==
  [][(last'.op = "approve" /\ last'.exit = EXIT_PASS) =>
       \A sid \in DOMAIN snapshots :
         RefusedForApproval(sid)' <=>
           (RefusedForApproval(sid) /\ read_sha256_file(sid) # read_sha256_file(last'.id))]_vars

\* after approve of one id: another id with the same digest passes the approval
\* check, a third one with another digest does not
C22_Witness ==
  /\ last.op = "approve"
  /\ last.exit = EXIT_PASS
  /\ \E sid \in DOMAIN snapshots :
       /\ sid # last.id
       /\ read_sha256_file(sid) = read_sha256_file(last.id)
       /\ ~RefusedForApproval(sid)
  /\ \E sid \in DOMAIN snapshots :
       /\ read_sha256_file(sid) # read_sha256_file(last.id)
       /\ RefusedForApproval(sid)


\* C23: an execute without --force whose stage directory already exists and is
\* non-empty is refused before the external call and leaves every output
\* directory as it was; an execute changes an existing non-empty stage directory
\* only under --force, and then nothing of the prior directory survives a failed
\* external call.
C23_StageOutputCreatedOnce ==
  [][last'.op = "execute" =>
       \A k \in DOMAIN outputs :
         outputs[k] # EmptyDir =>
           /\ (/\ ~last'.force
               /\ last'.id \in DOMAIN sha_files
               /\ k = OutDir(last'.id, last'.stage))
                => /\ last'.exit # EXIT_PASS
                   /\ ~last'.llm
                   /\ calls' = calls
                   /\ runtime' = runtime
                   /\ outputs' = outputs
           /\ (k \notin DOMAIN outputs' \/ outputs'[k] # outputs[k])
                => /\ last'.force
                   /\ k = OutDir(last'.id, last'.stage)
                   /\ last'.prefix = "LLM_CLI_FAILED" => outputs'[k] = EmptyDir]_vars

C23_Witness ==
  /\ last.op = "execute"
  /\ ~last.force
  /\ ~last.llm
  /\ last.prefix = "OUTPUT_DIR_EXISTS"
  /\ last.exit = EXIT_FAIL
  /\ outputs[OutDir(last.id, last.stage)] # EmptyDir

\* C24: an execute under --force changes no output directory but the one of its
\* own stage, and leaves snapshots, digest files, approval markers, Merge
\* Records and merge pointers unchanged.
C24_ForceDeletesOnlyItsStageDir ==
  [][(last'.op = "execute" /\ last'.force) =>
       /\ snapshots' = snapshots
       /\ sha_files' = sha_files
       /\ approvals' = approvals
       /\ merge_state' = merge_state
       /\ merge_ptr' = merge_ptr
       /\ \A k \in DOMAIN outputs :
            (last'.id \notin DOMAIN sha_files \/ k # OutDir(last'.id, last'.stage))
              => (k \in DOMAIN outputs' /\ outputs'[k] = outputs[k])]_vars

C24_Witness ==
  /\ last.op = "execute"
  /\ last.force
  /\ last.llm
  /\ OutDir(last.id, last.stage) \in DOMAIN outputs
  /\ \E st \in Stages \ {last.stage} :
       /\ OutDir(last.id, st) \in DOMAIN outputs
       /\ outputs[OutDir(last.id, st)] # EmptyDir

\* C25: after every successful execute the immutable_fingerprint of the stage's
\* execution_result.json is the digest of the canonicalized immutable_architecture
\* of the snapshot that passed the gate, whatever the reply carried under that
\* key; while every stage output was written by execute, the core and anchors
\* outputs of one snapshot carry equal fingerprints.
C25_ExecuteStampsSnapshotFingerprint ==
  [][(last'.op = "execute" /\ last'.exit = EXIT_PASS) =>
       /\ outputs'[OutDir(last'.id, last'.stage)].exec_fp
            = sha256_hex(canonicalize_json(snapshots[last'.id].immutable_architecture))
       /\ edits' = 0 =>
            \A sid \in DOMAIN snapshots :
              (/\ <<sid, "core">> \in DOMAIN outputs'
               /\ <<sid, "anchors">> \in DOMAIN outputs'
               /\ outputs'[<<sid, "core">>].exec_fp # NoFile
               /\ outputs'[<<sid, "anchors">>].exec_fp # NoFile)
                => outputs'[<<sid, "core">>].exec_fp = outputs'[<<sid, "anchors">>].exec_fp]_vars

C25_Witness ==
  /\ last.op = "execute"
  /\ last.exit = EXIT_PASS
  /\ edits = 0
  /\ <<last.id, "core">> \in DOMAIN outputs
  /\ <<last.id, "anchors">> \in DOMAIN outputs
  /\ outputs[<<last.id, "core">>].exec_fp
       = sha256_hex(canonicalize_json(snapshots[last.id].immutable_architecture))
  /\ outputs[<<last.id, "anchors">>].exec_fp = outputs[<<last.id, "core">>].exec_fp


\* the stage directory holds execution_result.raw.txt, which only cmd_execute writes
WrittenByExecute(k) == k \in DOMAIN outputs /\ outputs[k].raw

\* C26: a Merge Record created from stage outputs written by execute, for a
\* snapshot that still verifies against its digest file, carries the digest of
\* the canonicalized immutable_architecture of that snapshot; and in a history
\* of commands alone, a merge of two complete stage outputs of a run that has no
\* Merge Record and no pointer is refused by none of merge's checks.
C26_MergeRecordCarriesArchitectureDigest ==
  [][last'.op = "merge" =>
       /\ (/\ merge_state' # merge_state
           /\ WrittenByExecute(<<last'.id, "core">>)
           /\ WrittenByExecute(<<last'.id2, "anchors">>)
           /\ last'.id \in DOMAIN snapshots
           /\ verify_snapshot_files(last'.id).ok)
            => merge_state'[last'.id].immutable_fingerprint
                 = sha256_hex(canonicalize_json(snapshots[last'.id].immutable_architecture))
       /\ (/\ edits = 0
           /\ last'.id = last'.id2
           /\ last'.id \notin DOMAIN merge_state
           /\ last'.id \notin DOMAIN merge_ptr
           /\ \A st \in Stages :
                /\ <<last'.id, st>> \in DOMAIN outputs
                /\ outputs[<<last'.id, st>>].parts)
            => \/ last'.exit = EXIT_PASS
               \/ last'.detail = "unexpected runtime error"]_vars

\* decide, approve, execute core, execute anchors and merge, each succeeding at
\* its first attempt, with no hand edit in between
C26_Witness ==
  /\ last.op = "merge"
  /\ last.exit = EXIT_PASS
  /\ edits = 0
  /\ calls = 3
  /\ last.id \in DOMAIN merge_ptr
  /\ read_sha256_file(last.id) \in approvals
  /\ merge_state[last.id].immutable_fingerprint
       = sha256_hex(canonicalize_json(snapshots[last.id].immutable_architecture))


\* the message prefixes under which the orchestrator names a lifecycle or an
\* immutability violation ("README" stands for the drift guard of main)
GateViolations ==
  {"README", "SNAPSHOT_INVALID", "LIFECYCLE_VIOLATION", "EXECUTE_AFTER_MERGE",
   "SNAPSHOT_IMMUTABLE_VIOLATION", "FINGERPRINT_MISMATCH"}

\* raise ValueError("IMMUTABILITY_VIOLATION: ...") of cmd_execute
DeliverableViolations == {"IMMUTABILITY_VIOLATION"}

OrchestratorCommands == {"decide", "approve", "execute"}

\* what a command that returned normally has written
SideEffectsCommitted ==
  CASE last.op = "decide" -> snapshots # <<>> /\ DOMAIN snapshots = DOMAIN sha_files
    [] last.op = "approve" -> read_sha256_file(last.id) \in approvals
    [] OTHER ->
         /\ OutDir(last.id, last.stage) \in DOMAIN outputs
         /\ outputs[OutDir(last.id, last.stage)].raw
         /\ outputs[OutDir(last.id, last.stage)].exec_fp # NoFile
         /\ outputs[OutDir(last.id, last.stage)].parts

SeverityOf(violations) ==
  last.op \in OrchestratorCommands =>
    /\ last.prefix \in violations => (last.exit = EXIT_BLOCKER /\ last.level = LEVEL_BLOCKER)
    /\ (last.exit # EXIT_PASS /\ last.prefix \notin violations)
         => (last.exit = EXIT_FAIL /\ last.level = LEVEL_FAIL)
    /\ last.exit = EXIT_PASS => SideEffectsCommitted

\* C27: every lifecycle or immutability violation the orchestrator reports ends
\* with exit code 2 at level BLOCKER, every other failure with exit code 1 at
\* level FAIL, and exit code 0 is returned only with the side effects written.
C27_SeverityNeverDowngraded == SeverityOf(GateViolations \cup DeliverableViolations)


PostCheckCurrent ==
  /\ ret.op = "post_check"
  /\ ret.tree = TreeOf(ret.tree.merge_id, ret.tree.docs, ret.tree.anchors)

\* every core deliverable covers the registry of the run's snapshot and every
\* anchor row stays inside it
CorrectRun(t) ==
  /\ t.snapshot.kind = "dict"
  /\ \A i \in DOMAIN CoreFiles : t.docs[i] = KeyedWithNodeId(t.snapshot.ids)
  /\ t.anchors.kind = "list"
  /\ \A i \in DOMAIN t.anchors.rows :
       /\ t.anchors.rows[i].is_object
       /\ t.anchors.rows[i].from \in t.snapshot.ids
       /\ t.anchors.rows[i].to \in t.snapshot.ids

\* C29: a post-check given no id, a task id, or an id under which state/merges
\* holds no Merge Record ends with exit code 2, every finding a BLOCKER and no
\* deliverable looked at; a post-check by the merge id of a successful merge of
\* a correct run passes with exit code 0.
C29_PostCheckOnlyAfterMerge ==
  PostCheckCurrent =>
    /\ ret.tree.merge_id \notin DOMAIN merge_state =>
         /\ ret.out.exit = EXIT_BLOCKER
         /\ ~ret.out.validated
         /\ \A i \in DOMAIN ret.out.findings : ret.out.findings[i].level = LEVEL_BLOCKER
    /\ (/\ ret.tree.merge_id \in DOMAIN merge_state
        /\ ret.tree.merge_id \in DOMAIN merge_ptr
        /\ readme_ok
        /\ CorrectRun(ret.tree))
         => /\ ret.out.exit = EXIT_PASS
            /\ ret.out.findings = <<Finding(LEVEL_PASS, "OK")>>

C29_Witness ==
  /\ PostCheckCurrent
  /\ ret.tree.merge_id \in DOMAIN merge_state
  /\ last.op = "merge"
  /\ last.exit = EXIT_PASS
  /\ CorrectRun(ret.tree)
  /\ ret.out.exit = EXIT_PASS


\* the node ids a mapping keyed by node id covers: its keys
KeysOf(doc) == {e.key : e \in doc.entries}

\* each core deliverable is a mapping whose keys are the registry's node ids
\* and anchors.json is a list whose rows stay inside the registry
CoveredAsSpecified(t) ==
  /\ \A i \in DOMAIN CoreFiles :
       t.docs[i].kind = "dict" /\ KeysOf(t.docs[i]) = t.snapshot.ids
  /\ t.anchors.kind = "list"
  /\ \A i \in DOMAIN t.anchors.rows :
       /\ t.anchors.rows[i].is_object
       /\ t.anchors.rows[i].from \in t.snapshot.ids
       /\ t.anchors.rows[i].to \in t.snapshot.ids

\* C30: a post-check of a merged run passes with exit code 0 exactly when each
\* of the three core deliverables, a mapping keyed by node id, covers the node
\* ids of the registry and no other, anchors.json is a list and every anchor
\* row's from_node_id and to_node_id are in the registry; otherwise it ends
\* with exit code 1.
C30_PassExactlyWhenCovered ==
  ret.op = "checked" =>
    /\ ret.out.exit = EXIT_PASS <=> CoveredAsSpecified(ret.tree)
    /\ ~CoveredAsSpecified(ret.tree) => ret.out.exit = EXIT_FAIL


\* an anchor row that is not an object or whose from_node_id or to_node_id is
\* outside the registry
RowOutsideRegistry(row, ids) ==
  ~row.is_object \/ row.from \notin ids \/ row.to \notin ids

RowsOutsideRegistry(t) ==
  Cardinality({i \in DOMAIN t.anchors.rows :
                 RowOutsideRegistry(t.anchors.rows[i], t.snapshot.ids)})

\* C31: when each core deliverable of a merged run, a mapping keyed by node
\* id, covers exactly the registry and anchors.json is a list, bad_rows is the
\* number of anchor rows that are not objects or whose from_node_id or
\* to_node_id is outside the registry; one such row or more makes the
\* post-check fail with ANCHORS_INVALID.
C31_BadRowsCounted ==
  ( /\ ret.op = "checked"
    /\ ret.tree.present
    /\ \A i \in DOMAIN CoreFiles :
         ret.tree.docs[i].kind = "dict" /\ KeysOf(ret.tree.docs[i]) = ret.tree.snapshot.ids
    /\ ret.tree.anchors.kind = "list" )
  => /\ ret.out.bad_rows = RowsOutsideRegistry(ret.tree)
     /\ RowsOutsideRegistry(ret.tree) > 0 =>
          /\ ret.out.exit = EXIT_FAIL
          /\ ret.out.findings = <<Finding(LEVEL_FAIL, "ANCHORS_INVALID")>>


\* the text is one well-formed JSON object with nothing around it but
\* whitespace and byte order marks
SingleJsonObject(text) ==
  /\ text.body \in ObjectBodies
  /\ text.prefix # "text"
  /\ text.suffix # "text"

\* C32: when the text the external call returns for a stage is not a single
\* well-formed JSON object with nothing around it but whitespace and byte order
\* marks, execute fails and the stage directory holds execution_result.raw.txt
\* alone: no execution_result.json and no deliverable file.
C32_NotJsonFailsWithoutRecovery ==
  (ret.op = "executed" /\ ret.called /\ ~SingleJsonObject(ret.text)) =>
    /\ ~ret.passed
    /\ ret.dir.raw
    /\ ret.dir.exec_fp = NoFile
    /\ ~ret.dir.parts

C32_Witness ==
  /\ ret.op = "executed"
  /\ ret.called
  /\ ret.force
  /\ ret.before = CompleteDir(ReplyFingerprint)
  /\ ret.text = Text("text", "object", "")
  /\ ret.dir = [raw |-> TRUE, exec_fp |-> NoFile, parts |-> FALSE]


\* the merge processes that ended with [PASS] OK
MergesPassed == {p \in Mergers : ret.merge[p].pc = "passed"}

\* C33: of two merge processes started on the same run id at most one ends
\* successfully, the Merge Record is written once, and once one has passed the
\* other, if both stage outputs were there from the start, ends refused with
\* MERGE_STATE_EXISTS.
C33_OneMergeWins ==
  ret.op = "race" =>
    /\ Cardinality(MergesPassed) <= 1
    /\ ret.record_writes <= 1
    /\ \A p \in Mergers, q \in Mergers :
         (/\ ret.ready /\ ret.exec.pc = "start"
          /\ p # q /\ ret.merge[p].pc = "passed"
          /\ ret.merge[q].pc \in {"passed", "blocked", "failed"})
           => ret.merge[q].code = "MERGE_STATE_EXISTS"


\* C34: at every point of a save, between its writes and after a process was
\* killed between them, an id whose .sha256 file exists has its .snapshot.json
\* and .canonical.json files too, and the snapshot verifies against the digest.
C34_DigestWrittenLast ==
  \A id \in DOMAIN snapshots_dir :
    "sha256" \in snapshots_dir[id].written =>
      /\ {"snapshot", "canonical"} \subseteq snapshots_dir[id].written
      /\ verify_snapshot_texts(snapshots_dir[id].snapshot_json, snapshots_dir[id].sha256).ok

\* a save under way on an id an earlier save completed: its first write done,
\* the .sha256 file still the earlier one
C34_Witness ==
  /\ ret.op = "saving"
  /\ ret.k = 1
  /\ ret.f.base \in DOMAIN snapshots_dir
  /\ snapshots_dir[ret.f.base].written = {"snapshot", "canonical", "sha256"}
  /\ snapshots_dir[ret.f.base].snapshot_json = ret.f.snapshot_json


\* C35: whenever state/merges/by_run/<run_id>.merge_id exists, between the two
\* writes of a merge as anywhere else, its content is the merge id
\* <task_id>__<hashprefix>, which is the run id, and the Merge Record
\* state/merges/<merge_id>.json exists.
C35_PointerRefersToRecord ==
  \A run_id \in DOMAIN merge_ptr :
    /\ WellFormedId(merge_ptr[run_id])
    /\ merge_ptr[run_id] = run_id
    /\ merge_ptr[run_id] \in DOMAIN merge_state

\* one merge has written the pointer while another is between its two writes
C35_Witness ==
  /\ ret.op = "race"
  /\ RaceRun \in DOMAIN merge_ptr
  /\ \E p \in Mergers : ret.merge[p].pc = "written_1"


\* C36: with an execute and a merge of the same run interleaved, execute wipes
\* or writes no file of a stage output once the merge pointer of the run
\* exists: the stage outputs a Merge Record refers to stay as they were merged.
C36_NoStageWriteAfterMerge ==
  [][(ret.op = "race" /\ outputs' # outputs) => RaceRun \notin DOMAIN merge_ptr]_<<vars, store_vars>>


\* C37: the payload the gate returns, which cmd_execute sends to the external
\* call, is the payload whose digest the gate verified: its digest is the one
\* in the .sha256 file, for which the approval marker exists, also when another
\* process rewrites the snapshot file while the gate runs.
C37_ReturnedPayloadVerified ==
  (ret.op = "gate" /\ ret.pc = "returned") =>
    /\ ret.arch_decision = ret.verified
    /\ compute_snapshot_hash(ret.arch_decision).digest = ret.hash_hex
    /\ approval_file_for_hash(compute_snapshot_hash(ret.arch_decision).digest) \in approvals


\* C38: in every state of the tree in which a snapshot verifies against its
\* digest file and is approved, the classifier returns MERGED for it exactly
\* when the gate refuses its execute with EXECUTE_AFTER_MERGE.
C38_ClassifierAgreesWithGate ==
  \A sid \in DOMAIN snapshots :
    (/\ sid \in DOMAIN sha_files
     /\ verify_snapshot_files(sid).ok
     /\ approval_file_for_hash(read_sha256_file(sid)) \in approvals)
      => (infer_snapshot_state(sid) = "MERGED"
            <=> preflight_execute_gate(sid).prefix = "EXECUTE_AFTER_MERGE")


\* outputs/pass_2/<run_id>/<stage>/execution_result.json exists
StageCompleted(sid, stage) ==
  <<sid, stage>> \in DOMAIN outputs /\ outputs[<<sid, stage>>].exec_fp # NoFile

\* C39: while only decide, approve, execute and merge have written the tree, a
\* snapshot classified EXECUTED_CORE or EXECUTED_BOTH has the
\* execution_result.json of its core stage, one classified EXECUTED_ANCHORS or
\* EXECUTED_BOTH that of its anchors stage, and an execute that fails at or
\* after the external call leaves the classification of every snapshot as it was.
C39_ExecutedMeansCompleted ==
  [][SystemOperationsOnly' =>
       /\ \A sid \in DOMAIN snapshots' :
            /\ infer_snapshot_state(sid)' \in {"EXECUTED_CORE", "EXECUTED_BOTH"}
                 => StageCompleted(sid, "core")'
            /\ infer_snapshot_state(sid)' \in {"EXECUTED_ANCHORS", "EXECUTED_BOTH"}
                 => StageCompleted(sid, "anchors")'
       /\ (last'.op = "execute" /\ last'.llm /\ last'.exit # EXIT_PASS)
            => \A sid \in DOMAIN snapshots :
                 infer_snapshot_state(sid)' = infer_snapshot_state(sid)]_vars


\* C40: while only decide, approve, execute and merge have written a tree that
\* started empty, a merge pointer of a run comes with the snapshot of that run,
\* with the approval marker of the snapshot's digest, and with both stage
\* outputs, their execution results carrying one immutable_fingerprint.
C40_PointerImpliesApprovedExecuted ==
  SystemOperationsOnly =>
    \A run_id \in DOMAIN merge_ptr :
      /\ run_id \in DOMAIN snapshots
      /\ run_id \in DOMAIN sha_files
      /\ approval_file_for_hash(sha_files[run_id]) \in approvals
      /\ StageCompleted(run_id, "core")
      /\ StageCompleted(run_id, "anchors")
      /\ outputs[<<run_id, "core">>].exec_fp = outputs[<<run_id, "anchors">>].exec_fp

C40_Witness ==
  /\ SystemOperationsOnly
  /\ last.op = "merge"
  /\ last.exit = EXIT_PASS
  /\ last.id \in DOMAIN merge_ptr
  /\ approval_file_for_hash(sha_files[last.id]) \in approvals

====
